---- MODULE Spec2Model ----
(***************************************************************************)
(* Resilient fetch orchestration of talen-radar: the retry / paid-fallback *)
(* state machine of ScrapingOrchestratorService and the credit ledger of   *)
(* CreditTrackerService, with several fetch requests in flight at once;    *)
(* the session pool of BrowserEngineService and the jobs.bg bypass of      *)
(* AntiBypassService with its block classifier; the scrape endpoint of     *)
(* ScraperController.                                                      *)
(* Every `await` that lets another request run is a step boundary.         *)
(***************************************************************************)
EXTENDS Integers, Sequences, FiniteSets, TLC

VARIABLES
  now,                \* wall clock read by `new Date()`: [year, month]
  ticks,              \* month roll-overs seen so far
  monthlyUsage,       \* CreditTrackerService.monthlyUsage (Map key -> credits)
  retryConfig,        \* configService 'paidServices.retry', fixed at startup
  pc,                 \* position of each request inside executeWithFallback
  opts,               \* options and context of the call: retry policy, flags, site
  attempt,            \* loop variable `attempt`
  totalRequestCount,  \* context.totalRequestCount
  lastError,          \* local `lastError`
  paidResponse,       \* value held between the paid call and its bookkeeping
  result,             \* what the call returned or threw
  freeCalls,          \* number of freeStrategy.execute invocations of the call
  sleeps,             \* number of backoff sleeps of the call
  paidCalls,          \* number of scrapeWithScraperAPI invocations of the call
  ledgerQueries,      \* number of ledger reads made by the call
  usageLog,           \* CreditUsage entries the call handed to trackUsage
  delays,             \* the delays the call handed to sleep(), in order
  browser,            \* BrowserEngineService.browser: 0 is null, n the n-th launched
  contexts,           \* browsing contexts created so far, each live or closed
  sessions,           \* BrowserEngineService.sessions (Map id -> IBrowserSession)
  stats,              \* BrowserEngineService.stats
  clock,              \* wall clock read by the session pool
  call,               \* each pool client's call in progress and its outcome
  document,           \* the document handed to isContentBlocked
  blocked,            \* what isContentBlocked returned for it
  endpoint,           \* the POST scraper/scrape request being served
  date,               \* day of the month of the wall clock (`getDate()`)
  lastReset,          \* CreditTrackerService.lastReset
  admin,              \* the GET reset-usage request being served
  spend,              \* each trackUsage call in progress: position and usage entry
  paid,               \* the scrapeWithFallback call in progress and its outcome
  scroll              \* the performInfiniteScroll call in progress: its locals

reqVars == << pc, opts, attempt, totalRequestCount, lastError, paidResponse,
              result, freeCalls, sleeps, paidCalls, ledgerQueries, usageLog,
              delays >>

\* the ledger's clock and the service calls that are followed on their own
ledgerVars == << date, lastReset, admin, spend, paid, scroll >>

orchestratorVars == << now, ticks, monthlyUsage, retryConfig, reqVars, ledgerVars >>

engineVars == << browser, contexts, sessions, stats, clock, call >>

classifierVars == << document, blocked >>

controllerVars == << endpoint >>

vars == << orchestratorVars, engineVars, classifierVars, controllerVars >>

(***************************************************************************)
(* Bounds of the model.                                                    *)
(***************************************************************************)
NumRequests == 2        \* fetch requests in flight at the same time
MaxAttemptsBound == 3   \* largest RetryPolicy.maxAttempts explored
MaxTicks == 1           \* month roll-overs explored
MaxDay == 2             \* days of a calendar month, scaled down
MaxHeight == 3          \* largest document.body.scrollHeight observed, scaled down
MaxBaseDelay == 2       \* largest RetryPolicy.baseDelayMs explored
MaxExponentialBase == 2 \* largest RetryPolicy.exponentialBase explored
MaxJitter == 2          \* largest RetryPolicy.jitterMs explored
FreeMonthlyLimit == 12  \* paidServices.scraperapi.freeMonthlyLimit, scaled down

(***************************************************************************)
(* Program constants.                                                      *)
(***************************************************************************)
JobsBgCredits == 10     \* creditsPerRequest['jobs.bg']
DefaultCredits == 1     \* creditsPerRequest.default
DefaultMaxAttempts == 3        \* retry.maxAttempts
DefaultBaseDelaySeconds == 10  \* retry.baseDelayMs, in seconds
DefaultExponentialBase == 3    \* retry.exponentialBase
DefaultJitterSeconds == 2      \* retry.jitterMs, in seconds
MinimalPaidLength == 100       \* shortest response text accepted from a paid provider
MaxScrollAttempts == 15        \* `maxAttempts` of performInfiniteScroll

Requests == 1..NumRequests
Sites == {"jobs.bg", "dev.bg"}

NoError == "null"
BlockingDetected == "Blocking detected - requires premium service"
NoContentReceived == "No content received"

(***************************************************************************)
(* Documents and the block checker handed in by the caller.                *)
(***************************************************************************)
isBlockedChecker(html) == html = "blockpage"

\* What freeStrategy.execute can produce: a response or a thrown error.
FreeOutcomes ==
  { [kind |-> "throw",    success |-> FALSE, html |-> "",          error |-> "TransportError"],
    [kind |-> "response", success |-> FALSE, html |-> "",          error |-> "NavigationFailed"],
    [kind |-> "response", success |-> TRUE,  html |-> "",          error |-> NoError],
    [kind |-> "response", success |-> TRUE,  html |-> "blockpage", error |-> NoError],
    [kind |-> "response", success |-> TRUE,  html |-> "content",   error |-> NoError] }

\* the emptiness test of the html left out
FreeAttemptFailedIgnoringHtml(o) == o.kind = "throw" \/ ~o.success

\* `!response.success || !response.html` of the retry loop
FreeAttemptFailed(o) == o.kind = "throw" \/ ~o.success \/ o.html = ""

\* message caught by the loop's catch block
FreeErrorMessage(o) ==
  IF o.kind = "throw" THEN o.error
  ELSE IF o.error # NoError THEN o.error ELSE NoContentReceived

\* a backoff sleep after the last failed attempt as well
RetryAfterEveryFailure(a, maxAttempts) == TRUE

\* `attempt < retryConfig.maxAttempts`: a backoff sleep follows the failure
RetryAfterFailure(a, maxAttempts) == a < maxAttempts

\* `isBlockedChecker && isBlockedChecker(response.html)`
BlockingDetectedOn(o, hasChecker) == hasChecker /\ isBlockedChecker(o.html)

(***************************************************************************)
(* Backoff delay of the retry loop.  Delays are whole time units; a draw   *)
(* of `Math.random() * jitterMs` is a value from 0 up to, not including,   *)
(* jitterMs.                                                               *)
(***************************************************************************)
RECURSIVE Pow(_, _)
Pow(b, e) == IF e = 0 THEN 1 ELSE b * Pow(b, e - 1)

JitterDraws(jitterMs) == IF jitterMs = 0 THEN {0} ELSE 0..(jitterMs - 1)

\* the exponent left out of the delay
BackoffDelayFlat(cfg, a, jitter) == cfg.baseDelayMs + jitter

\* `baseDelayMs * Math.pow(exponentialBase, attempt - 1) + Math.random() * jitterMs`
BackoffDelay(cfg, a, jitter) ==
  cfg.baseDelayMs * Pow(cfg.exponentialBase, a - 1) + jitter

(***************************************************************************)
(* Credit ledger (CreditTrackerService).                                   *)
(***************************************************************************)
\* `${service}_${year}_${month}`
UsageKey(service, t) == << service, t.year, t.month >>

\* `this.monthlyUsage.get(key) || 0`
UsageOf(m, key) == IF key \in DOMAIN m THEN m[key] ELSE 0

\* credits used by ScraperAPI in the month of the wall clock
Used == UsageOf(monthlyUsage, UsageKey("scraperapi", now))

getCreditCost(siteName, service) ==
  IF service = "scraperapi"
  THEN IF siteName = "jobs.bg" THEN JobsBgCredits ELSE DefaultCredits
  ELSE 1

Max(a, b) == IF a >= b THEN a ELSE b

\* getServiceLimits().scraperapi.remaining
Remaining(m, t) == Max(0, FreeMonthlyLimit - UsageOf(m, UsageKey("scraperapi", t)))

\* the comparison off by one credit
hasAvailableCreditsOffByOne(m, t, service, requiredCredits) ==
  IF service = "scraperapi" THEN Remaining(m, t) + 1 >= requiredCredits ELSE FALSE

hasAvailableCredits(m, t, service, requiredCredits) ==
  IF service = "scraperapi" THEN Remaining(m, t) >= requiredCredits ELSE FALSE

\* the cache entry written only when the key has no entry yet
trackUsageKeepingFirst(m, t, usage) ==
  LET key == UsageKey(usage.service, t)
  IN  IF key \in DOMAIN m THEN m
      ELSE [k \in DOMAIN m \cup {key} |-> IF k = key THEN usage.credits ELSE m[k]]

\* the cache entry overwritten instead of incremented
trackUsageOverwrite(m, t, usage) ==
  LET key == UsageKey(usage.service, t)
  IN  [k \in DOMAIN m \cup {key} |-> IF k = key THEN usage.credits ELSE m[k]]

\* the in-memory update of trackUsage
trackUsage(m, t, usage) ==
  LET key == UsageKey(usage.service, t)
      upd == UsageOf(m, key) + usage.credits
  IN  [k \in DOMAIN m \cup {key} |-> IF k = key THEN upd ELSE m[k]]

(***************************************************************************)
(* Paid provider (PaidScraperService.scrapeWithScraperAPI).                *)
(***************************************************************************)
\* what the provider's endpoint can answer: a page, a page of a few characters,
\* an error payload (a JSON object with an `error` field) of 100 characters or
\* more, a shorter error payload, an HTTP error; or the API key is not set
NetOutcomes ==
  {"html", "minimal", "errorPayload", "shortErrorPayload", "httpError", "notConfigured"}

\* the bodies that are error payloads
ErrorPayloads == {"errorPayload", "shortErrorPayload"}

\* `html.trim().startsWith('{') || html.trim().startsWith('[')`
LooksLikeJson(net) == net \in ErrorPayloads

\* `html.length` of the response text
PaidHtmlLength(net) ==
  IF net \in {"html", "errorPayload"} THEN MinimalPaidLength ELSE MinimalPaidLength - 1

\* the response text
PaidHtml(net) ==
  IF net = "html" THEN "paidcontent"
  ELSE IF net = "errorPayload" THEN "errorpayload"
  ELSE IF net = "shortErrorPayload" THEN "shorterrorpayload"
  ELSE "shortpage"

\* the error check of the response text: `throw new Error('ScraperAPI error')`
\* runs inside the try whose `catch (parseError)` has an empty body, so the
\* error raised for a payload with an `error` field is swallowed there and
\* never leaves the check
ErrorCheckThrows(net) ==
  LET thrownInTry == LooksLikeJson(net) /\ net \in ErrorPayloads
      caughtByParseCatch == thrownInTry
  IN  thrownInTry /\ ~caughtByParseCatch

calculateCredits(siteName, service) ==
  IF service = "scraperapi"
  THEN IF siteName = "jobs.bg" THEN JobsBgCredits ELSE DefaultCredits
  ELSE 1

scrapeWithScraperAPI(net, siteName) ==
  IF net = "notConfigured"
  THEN [kind |-> "throw", success |-> FALSE, html |-> "", credits |-> 0,
        error |-> "ScraperAPI not configured", body |-> net]
  ELSE IF net = "httpError"
  THEN [kind |-> "response", success |-> FALSE, html |-> "", credits |-> 0,
        error |-> "Request failed", body |-> net]
  ELSE IF ErrorCheckThrows(net)
  THEN [kind |-> "response", success |-> FALSE, html |-> "", credits |-> 0,
        error |-> "ScraperAPI error", body |-> net]
  ELSE IF PaidHtmlLength(net) < MinimalPaidLength
  THEN [kind |-> "response", success |-> FALSE, html |-> "", credits |-> 0,
        error |-> "ScraperAPI returned empty or minimal content", body |-> net]
  ELSE [kind |-> "response", success |-> TRUE, html |-> PaidHtml(net),
        credits |-> calculateCredits(siteName, "scraperapi"), error |-> NoError,
        body |-> net]

\* only a thrown error counted as a failure of the paid call
PaidCallFailedOnlyThrow(p) == p.kind = "throw"

\* `!paidResponse.success || !paidResponse.html`, or the call threw
PaidCallFailed(p) == p.kind = "throw" \/ ~p.success \/ p.html = ""

\* every paid call booked by the catch block, a successful one as well
AfterPaidCallAlwaysCaught(p) == "trackFailure"

\* a failed paid call issued again
AfterPaidCallRetries(p) ==
  IF PaidCallFailed(p) THEN "paidCall" ELSE "trackSuccess"

\* the paid call's try block runs on to trackUsage or lands in its catch
AfterPaidCall(p) ==
  IF PaidCallFailed(p) THEN "trackFailure" ELSE "trackSuccess"

NoPaidResponse ==
  [kind |-> "none", success |-> FALSE, html |-> "", credits |-> 0, error |-> NoError,
   body |-> "none"]

NoResult ==
  [kind |-> "none", success |-> FALSE, html |-> "", error |-> NoError,
   attempts |-> 0, via |-> "none", creditsUsed |-> 0]

\* no performInfiniteScroll call in progress
NoScroll == [pc |-> "idle", previousHeight |-> 0, currentHeight |-> 0, attempts |-> 0]

\* a provider's configuration: `enabled` and whether `apiKey` is set
ProviderConfigs == [enabled : BOOLEAN, apiKey : BOOLEAN]

\* no scrapeWithFallback call in progress
NoPaid ==
  [pc |-> "idle", siteName |-> "dev.bg",
   scraperapi |-> [enabled |-> FALSE, apiKey |-> FALSE],
   scrapingdog |-> [enabled |-> FALSE, apiKey |-> FALSE],
   first |-> NoPaidResponse, calls |-> << >>, result |-> NoPaidResponse]

\* no trackUsage call in progress
NoSpend == [pc |-> "idle", service |-> "none", credits |-> 0]

NoOpts ==
  [enablePaidFallback |-> FALSE, hasChecker |-> FALSE, siteName |-> "dev.bg"]

(***************************************************************************)
(* Session pool (BrowserEngineService): configurations, ids and the        *)
(* values a pool client's call holds.                                      *)
(***************************************************************************)
NumClients == 2     \* callers of the pool in flight at the same time
MaxContexts == 3    \* browsing contexts created in a run
MaxFetches == 4     \* fetchPage calls made in a run
MaxClock == 1       \* clock ticks seen by the pool

Clients == 1..NumClients
Undefined == "undefined"

\* the BrowserSessionConfig built by executeJobsBgBypass when
\* SCRAPER_FORCE_HEADLESS is not set
JobsBgBypassConfig ==
  [siteName |-> "jobs.bg", headless |-> "false", stealth |-> "true",
   userAgent |-> "Macintosh", loadImages |-> "true"]

\* configurations handed to getSession: the bypass configuration, the same
\* with images switched off, and one that leaves the optional fields out
SessionConfigs ==
  { JobsBgBypassConfig,
    [JobsBgBypassConfig EXCEPT !.loadImages = "false"],
    [siteName |-> "dev.bg", headless |-> "true", stealth |-> Undefined,
     userAgent |-> Undefined, loadImages |-> Undefined] }

NoConfig ==
  [siteName |-> Undefined, headless |-> Undefined, stealth |-> Undefined,
   userAgent |-> Undefined, loadImages |-> Undefined]

\* `${siteName}-${userAgent || 'default'}-${headless}-${stealth || false}`
BaseStr(config) ==
  << config.siteName,
     IF config.userAgent \in {Undefined, ""} THEN "default" ELSE config.userAgent,
     config.headless,
     IF config.stealth \in {Undefined, "false"} THEN "false" ELSE config.stealth >>

\* every field of the configuration hashed into the id
generateSessionIdOfWholeConfig(config, forceNew, salt) ==
  [base |-> BaseStr(config) \o << config.loadImages >>,
   salt |-> IF forceNew THEN salt ELSE 0]

\* the md5 digest of baseStr, or of baseStr with `Date.now()-Math.random()`
\* appended; the digest is taken to be free of collisions
generateSessionId(config, forceNew, salt) ==
  [base |-> BaseStr(config), salt |-> IF forceNew THEN salt ELSE 0]

NoId == [base |-> << >>, salt |-> 0]

\* the salts a forced id can carry
Salts == 1..MaxContexts

\* every id a client can name
SessionIds ==
  {generateSessionId(c, f, s) : c \in SessionConfigs, f \in BOOLEAN, s \in Salts}

\* what fetchPage can produce: the page's content or a caught navigation error
FetchOutcomes ==
  { [kind |-> "response", success |-> TRUE,  html |-> "content",   error |-> NoError],
    [kind |-> "response", success |-> TRUE,  html |-> "blockpage", error |-> NoError],
    [kind |-> "response", success |-> FALSE, html |-> "",
     error |-> "NavigationFailed"] }

NoResponse == [kind |-> "none", success |-> FALSE, html |-> "", error |-> NoError]

\* what a call handed back: a session, nothing, undefined, a response or an error
NoRet ==
  [kind |-> "none", id |-> NoId, context |-> 0, success |-> FALSE, html |-> "",
   error |-> NoError]

SessionRet(id, context) == [NoRet EXCEPT !.kind = "session", !.id = id, !.context = context]

VoidRet == [NoRet EXCEPT !.kind = "void"]

UndefinedRet == [NoRet EXCEPT !.kind = "undefined"]

ThrowRet(error) == [NoRet EXCEPT !.kind = "throw", !.error = error]

ResponseRet(o) ==
  [NoRet EXCEPT !.kind = "response", !.success = o.success, !.html = o.html,
                !.error = o.error]

\* the client's previous call when it handed back a session or was a bypass
\* run: its operation, arguments and outcome, the session it ran on and the
\* error of its last navigation
NoPrev ==
  [op |-> "none", config |-> NoConfig, arg |-> NoId, kind |-> "none",
   id |-> NoId, context |-> 0, error |-> NoError]

\* a call of a client: where it stands, what it works on, how its last
\* safePageOperation step ended, its last navigation and its outcome
NoCall ==
  [op |-> "none", pc |-> "idle", config |-> NoConfig, arg |-> NoId, id |-> NoId,
   context |-> 0, pending |-> {}, startTime |-> 0, step |-> "none",
   navigation |-> NoResponse, ret |-> NoRet, prev |-> NoPrev]

NoStats == [totalRequests |-> 0, totalLoadTime |-> 0, successfulRequests |-> 0]

\* the service after construction: no browser, no session, zeroed statistics
InitEngine ==
  /\ browser = 0
  /\ contexts = << >>
  /\ sessions = << >>
  /\ stats = NoStats
  /\ clock = 0
  /\ call = [p \in Clients |-> NoCall]

(***************************************************************************)
(* Block classifier (AntiBypassService.isContentBlocked).                  *)
(***************************************************************************)
LargeContentLength == 50000    \* `html.length > 50000`
MinimalContentLength == 500    \* `html.length < 500`

\* pieces of text a document can contain, spelled as they occur in it;
\* together they are shorter than any length of DocumentLengths
Fragments ==
  { "mdc-card", "jobs.bg", "Vacancy", "js.datadome.co/tags.js",
    "datadome.co/captcha", "forbidden", "Access Denied", "access denied",
    "Just a moment", "DataDome Captcha" }

DocumentLengths ==
  { MinimalContentLength - 1, MinimalContentLength, LargeContentLength,
    LargeContentLength + 1 }

\* a document: the pieces it contains and its length in characters
NoDocument == [text |-> {}, length |-> 0]

Documents ==
  {NoDocument} \cup
    {[text |-> t, length |-> n] : t \in SUBSET Fragments, n \in DocumentLengths}

\* String.prototype.toLowerCase on a piece of text
ToLowerCase(f) ==
  CASE f = "Vacancy" -> "vacancy"
    [] f = "Access Denied" -> "access denied"
    [] f = "Just a moment" -> "just a moment"
    [] f = "DataDome Captcha" -> "datadome captcha"
    [] OTHER -> f

\* `html.toLowerCase()`
htmlLower(html) == {ToLowerCase(f) : f \in html.text}

\* needle occurs inside piece without being the whole of it
ProperSubstrings == { << "job", "jobs.bg" >> }

\* `htmlLower.includes(needle)`
Includes(lowered, needle) ==
  \E piece \in lowered : needle = piece \/ << needle, piece >> \in ProperSubstrings

hasJobContent(html) ==
  /\ Includes(htmlLower(html), "mdc-card")
  /\ \/ Includes(htmlLower(html), "job")
     \/ Includes(htmlLower(html), "position")
     \/ Includes(htmlLower(html), "vacancy")

blockingIndicators ==
  { "datadome.co/captcha", "dd.captcha-delivery.com/captcha",
    "geo.captcha-delivery.com/captcha", "ct.captcha-delivery.com",
    "captcha-delivery.com/interstitial", "captcha-delivery.com/captcha",
    "DataDome Captcha", "DataDome CAPTCHA", "DataDome Device Check",
    "Just a moment", "Verifying your browser", "Challenge solved",
    "DataDome protection", "Please complete the security check",
    "Access Denied", "Please verify you are a human", "Security Check",
    "Bot Protection", "Please wait while we check your browser",
    "forbidden", "rate limit exceeded" }

\* `blockingIndicators.some(indicator => htmlLower.includes(indicator))`
hasBlockingIndicator(html) ==
  \E indicator \in blockingIndicators : Includes(htmlLower(html), indicator)

hasMinimalContent(html) == html.length < MinimalContentLength

\* the early return for large job listings left out
isContentBlockedWithoutExemption(html) ==
  hasBlockingIndicator(html) \/ hasMinimalContent(html)

isContentBlocked(html) ==
  IF hasJobContent(html) /\ html.length > LargeContentLength
  THEN FALSE
  ELSE hasBlockingIndicator(html) \/ hasMinimalContent(html)

InitClassifier ==
  /\ document = NoDocument
  /\ blocked = "unclassified"

(***************************************************************************)
(* Scrape endpoint (ScraperController).                                    *)
(***************************************************************************)
\* values of the `url` query parameter; Undefined is a request without it
Urls ==
  { Undefined, "", "dev.bg", "jobs.bg", "https://dev.bg/company/jobs/java/",
    "https://www.jobs.bg/front_job_search.php", "unsupported-site.com",
    "not-a-valid-url" }

Limits == { Undefined, "5", "abc" }

Saves == { Undefined, "true", "1", "false" }

\* `urlOrSiteName.includes(site)`
UrlIncludes(url, site) ==
  \/ url = site
  \/ << url, site >> \in { << "https://dev.bg/company/jobs/java/", "dev.bg" >>,
                           << "https://www.jobs.bg/front_job_search.php", "jobs.bg" >> }

NoSite == "null"

\* an unrecognised url taken for jobs.bg
extractSiteNameWithDefault(urlOrSiteName) ==
  IF urlOrSiteName = "dev.bg" \/ urlOrSiteName = "jobs.bg" THEN urlOrSiteName
  ELSE IF UrlIncludes(urlOrSiteName, "dev.bg") THEN "dev.bg"
  ELSE "jobs.bg"

extractSiteName(urlOrSiteName) ==
  IF urlOrSiteName = "dev.bg" \/ urlOrSiteName = "jobs.bg" THEN urlOrSiteName
  ELSE IF UrlIncludes(urlOrSiteName, "dev.bg") THEN "dev.bg"
  ELSE IF UrlIncludes(urlOrSiteName, "jobs.bg") THEN "jobs.bg"
  ELSE NoSite

\* `limit ? parseInt(limit, 10) : 1`
LimitNum(limit) ==
  IF limit \in {Undefined, ""} THEN "1"
  ELSE IF limit = "abc" THEN "NaN" ELSE limit

\* `save === 'true' || save === '1'`
SaveToDb(save) == save = "true" \/ save = "1"

\* `!url`
UrlMissing(url) == url \in {Undefined, ""}

NoReply == [kind |-> "none", success |-> FALSE, error |-> NoError, saved |-> FALSE]

FailureReply(error) == [NoReply EXCEPT !.kind = "return", !.error = error]

SuccessReply(saved) ==
  [NoReply EXCEPT !.kind = "return", !.success = TRUE, !.saved = saved]

NoEndpoint ==
  [pc |-> "idle", url |-> Undefined, limitNum |-> "1", saveToDb |-> FALSE,
   siteName |-> NoSite, lookups |-> 0, scrapeJobsCalls |-> 0,
   scrapeSiteCalls |-> 0, jobs |-> 0, reply |-> NoReply]

InitController == endpoint = NoEndpoint

(***************************************************************************)
(* Initial state: no request running, empty usage cache.                   *)
(***************************************************************************)
InitRequests ==
  /\ now = [year |-> 0, month |-> 11]
  /\ ticks = 0
  /\ monthlyUsage = << >>
  /\ pc = [r \in Requests |-> "idle"]
  /\ opts = [r \in Requests |-> NoOpts]
  /\ attempt = [r \in Requests |-> 0]
  /\ totalRequestCount = [r \in Requests |-> 0]
  /\ lastError = [r \in Requests |-> NoError]
  /\ paidResponse = [r \in Requests |-> NoPaidResponse]
  /\ result = [r \in Requests |-> NoResult]
  /\ freeCalls = [r \in Requests |-> 0]
  /\ sleeps = [r \in Requests |-> 0]
  /\ paidCalls = [r \in Requests |-> 0]
  /\ ledgerQueries = [r \in Requests |-> 0]
  /\ usageLog = [r \in Requests |-> << >>]
  /\ delays = [r \in Requests |-> << >>]
  /\ date = 1
  /\ lastReset = [year |-> 0, month |-> 11, date |-> 1]
  /\ admin = [pc |-> "idle", success |-> FALSE]
  /\ spend = [r \in Requests |-> NoSpend]
  /\ paid = NoPaid
  /\ scroll = NoScroll

\* the retry policy of paidServices.retry with `maxAttempts` set to n
ConfiguredPolicy(n) ==
  [maxAttempts |-> n, baseDelayMs |-> DefaultBaseDelaySeconds,
   exponentialBase |-> DefaultExponentialBase, jitterMs |-> DefaultJitterSeconds]

\* the same policy with the jitter switched off
SteadyPolicy(n) == [ConfiguredPolicy(n) EXCEPT !.jitterMs = 0]

\* getDefaultRetryConfig(): the retry policy the process was started with
Init ==
  /\ InitRequests
  /\ InitEngine
  /\ InitClassifier
  /\ InitController
  /\ \E n \in 1..MaxAttemptsBound : retryConfig = ConfiguredPolicy(n)

\* calls followed across a month roll-over, under a policy without jitter
RolloverInit ==
  /\ InitRequests
  /\ InitEngine
  /\ InitClassifier
  /\ InitController
  /\ \E n \in 1..MaxAttemptsBound : retryConfig = SteadyPolicy(n)

\* several requests in flight, under the shortest retry policy that retries
ConcurrentInit ==
  /\ InitRequests
  /\ InitEngine
  /\ InitClassifier
  /\ InitController
  /\ retryConfig = SteadyPolicy(2)

\* the services after construction, under the configured retry policy
IdleInit ==
  /\ InitRequests
  /\ InitEngine
  /\ InitClassifier
  /\ InitController
  /\ retryConfig = ConfiguredPolicy(DefaultMaxAttempts)

\* a response body arrives and is about to be classified
ClassifierInit ==
  /\ InitRequests
  /\ InitEngine
  /\ InitController
  /\ retryConfig = ConfiguredPolicy(DefaultMaxAttempts)
  /\ document \in Documents
  /\ blocked = "unclassified"

\* one call under each retry policy of the explored range
BackoffInit ==
  /\ InitRequests
  /\ InitEngine
  /\ InitClassifier
  /\ InitController
  /\ \E n \in 1..MaxAttemptsBound, b \in 1..MaxBaseDelay,
        e \in 1..MaxExponentialBase, j \in 0..MaxJitter :
       retryConfig = [maxAttempts |-> n, baseDelayMs |-> b,
                      exponentialBase |-> e, jitterMs |-> j]

\* a loop without its bound
LoopContinuesForever(a, maxAttempts) == TRUE

\* the loop bound written as `attempt < retryConfig.maxAttempts`
LoopContinuesOffByOne(a, maxAttempts) == a < maxAttempts

\* `attempt <= retryConfig.maxAttempts`: the loop runs another iteration
LoopContinues(a, maxAttempts) == a <= maxAttempts

\* blocking handled like any other failure: back off and try again
AfterBlockingRetries(a, maxAttempts) ==
  IF a < maxAttempts THEN "sleep" ELSE "fallback"

\* `break; // Exit retry loop immediately`
AfterBlocking(a, maxAttempts) == "fallback"

\* the `enablePaidFallback` flag ignored
ShouldTryPaidAlways(o) == TRUE

\* `if (enablePaidFallback)`
ShouldTryPaid(o) == o.enablePaidFallback

\* position after `attempt++` at the end of an iteration
AfterIteration(a, maxAttempts) ==
  IF LoopContinues(a + 1, maxAttempts) THEN "attempt" ELSE "fallback"

(***************************************************************************)
(* A caller invokes executeWithFallback with a fresh context               *)
(* (totalRequestCount: 0, lastError: null) and its options.                *)
(***************************************************************************)
Start(r) ==
  /\ pc[r] = "idle"
  /\ \E pf \in BOOLEAN, ck \in BOOLEAN, s \in Sites :
       opts' = [opts EXCEPT ![r] = [enablePaidFallback |-> pf,
                                    hasChecker |-> ck, siteName |-> s]]
  /\ attempt' = [attempt EXCEPT ![r] = 1]
  /\ pc' = [pc EXCEPT ![r] = AfterIteration(0, retryConfig.maxAttempts)]
  /\ UNCHANGED << now, ticks, monthlyUsage, retryConfig, totalRequestCount, lastError,
                  paidResponse, result, freeCalls, sleeps, paidCalls,
                  ledgerQueries, usageLog >>
  /\ UNCHANGED << delays, ledgerVars, engineVars, classifierVars, controllerVars >>

(***************************************************************************)
(* One iteration of the retry loop up to its next await or exit.           *)
(***************************************************************************)
FreeAttempt(r) ==
  /\ pc[r] = "attempt"
  /\ \E o \in FreeOutcomes :
       /\ totalRequestCount' = [totalRequestCount EXCEPT ![r] = @ + 1]
       /\ freeCalls' = [freeCalls EXCEPT ![r] = @ + 1]
       /\ IF FreeAttemptFailed(o)
          THEN /\ lastError' = [lastError EXCEPT ![r] = FreeErrorMessage(o)]
               /\ result' = result
               /\ IF RetryAfterFailure(attempt[r], retryConfig.maxAttempts)
                  THEN /\ pc' = [pc EXCEPT ![r] = "sleep"]
                       /\ attempt' = attempt
                  ELSE /\ pc' = [pc EXCEPT ![r] =
                                   AfterIteration(attempt[r], retryConfig.maxAttempts)]
                       /\ attempt' = [attempt EXCEPT ![r] = @ + 1]
          ELSE IF BlockingDetectedOn(o, opts[r].hasChecker)
          THEN /\ lastError' = [lastError EXCEPT ![r] = BlockingDetected]
               /\ pc' = [pc EXCEPT ![r] =
                            AfterBlocking(attempt[r], retryConfig.maxAttempts)]
               /\ UNCHANGED << attempt, result >>
          ELSE /\ result' = [result EXCEPT ![r] =
                              [kind |-> "return", success |-> o.success,
                               html |-> o.html, error |-> NoError, attempts |-> 0,
                               via |-> "free", creditsUsed |-> 0]]
               /\ pc' = [pc EXCEPT ![r] = "done"]
               /\ UNCHANGED << attempt, lastError >>
  /\ UNCHANGED << now, ticks, monthlyUsage, retryConfig, opts, paidResponse, sleeps,
                  paidCalls, ledgerQueries, usageLog >>
  /\ UNCHANGED << delays, ledgerVars, engineVars, classifierVars, controllerVars >>

\* `await this.sleep(delay)` settles and the loop increments `attempt`
Sleep(r) ==
  /\ pc[r] = "sleep"
  /\ \E jitter \in JitterDraws(retryConfig.jitterMs) :
       delays' = [delays EXCEPT ![r] =
                    Append(@, BackoffDelay(retryConfig, attempt[r], jitter))]
  /\ sleeps' = [sleeps EXCEPT ![r] = @ + 1]
  /\ attempt' = [attempt EXCEPT ![r] = @ + 1]
  /\ pc' = [pc EXCEPT ![r] = AfterIteration(attempt[r], retryConfig.maxAttempts)]
  /\ UNCHANGED << now, ticks, monthlyUsage, retryConfig, opts, totalRequestCount, lastError,
                  paidResponse, result, freeCalls, paidCalls, ledgerQueries,
                  usageLog >>
  /\ UNCHANGED << ledgerVars, engineVars, classifierVars, controllerVars >>

\* after the loop: `if (enablePaidFallback)` or the failure response
FallbackDecision(r) ==
  /\ pc[r] = "fallback"
  /\ IF ShouldTryPaid(opts[r])
     THEN /\ pc' = [pc EXCEPT ![r] = "paidCheck"]
          /\ result' = result
     ELSE /\ pc' = [pc EXCEPT ![r] = "done"]
          /\ result' = [result EXCEPT ![r] =
                          [kind |-> "return", success |-> FALSE, html |-> "",
                           error |-> lastError[r],
                           attempts |-> retryConfig.maxAttempts,
                           via |-> "free", creditsUsed |-> 0]]
  /\ UNCHANGED << now, ticks, monthlyUsage, retryConfig, opts, attempt, totalRequestCount,
                  lastError, paidResponse, freeCalls, sleeps, paidCalls,
                  ledgerQueries, usageLog >>
  /\ UNCHANGED << delays, ledgerVars, engineVars, classifierVars, controllerVars >>

(***************************************************************************)
(* executeWithPaidService.                                                 *)
(***************************************************************************)
\* getCreditCost, hasAvailableCredits and, when the budget does not cover the
\* cost, getUsagePercentage and the thrown budget error
CheckCredits(r) ==
  /\ pc[r] = "paidCheck"
  /\ LET requiredCredits == getCreditCost(opts[r].siteName, "scraperapi")
     IN  IF hasAvailableCredits(monthlyUsage, now, "scraperapi", requiredCredits)
         THEN /\ pc' = [pc EXCEPT ![r] = "paidCall"]
              /\ ledgerQueries' = [ledgerQueries EXCEPT ![r] = @ + 1]
              /\ result' = result
         ELSE /\ pc' = [pc EXCEPT ![r] = "done"]
              /\ ledgerQueries' = [ledgerQueries EXCEPT ![r] = @ + 2]
              /\ result' = [result EXCEPT ![r] =
                              [kind |-> "throw", success |-> FALSE, html |-> "",
                               error |-> "Insufficient ScraperAPI credits",
                               attempts |-> 0, via |-> "budget",
                               creditsUsed |-> 0]]
  /\ UNCHANGED << now, ticks, monthlyUsage, retryConfig, opts, attempt, totalRequestCount,
                  lastError, paidResponse, freeCalls, sleeps, paidCalls,
                  usageLog >>
  /\ UNCHANGED << delays, ledgerVars, engineVars, classifierVars, controllerVars >>

\* `await this.paidScraperService.scrapeWithScraperAPI(paidOptions)` settles
PaidCall(r) ==
  /\ pc[r] = "paidCall"
  /\ \E net \in NetOutcomes :
       LET p == scrapeWithScraperAPI(net, opts[r].siteName)
       IN  /\ paidResponse' = [paidResponse EXCEPT ![r] = p]
           /\ pc' = [pc EXCEPT ![r] = AfterPaidCall(p)]
  /\ paidCalls' = [paidCalls EXCEPT ![r] = @ + 1]
  /\ UNCHANGED << now, ticks, monthlyUsage, retryConfig, opts, attempt, totalRequestCount,
                  lastError, result, freeCalls, sleeps, ledgerQueries, usageLog >>
  /\ UNCHANGED << delays, ledgerVars, engineVars, classifierVars, controllerVars >>

\* the usage entry built after a successful paid call
SuccessUsage(r) ==
  [service |-> "scraperapi", site |-> opts[r].siteName,
   credits |-> paidResponse[r].credits, successful |-> TRUE]

\* the failed call charged at the site's credit cost
FailureUsageCharged(r) ==
  [service |-> "scraperapi", site |-> opts[r].siteName,
   credits |-> getCreditCost(opts[r].siteName, "scraperapi"),
   successful |-> FALSE]

\* the usage entry built in the catch block
FailureUsage(r) ==
  [service |-> "scraperapi", site |-> opts[r].siteName,
   credits |-> 0, successful |-> FALSE]

\* trackUsage of the success branch, then the converted response is returned
TrackSuccess(r) ==
  /\ pc[r] = "trackSuccess"
  /\ monthlyUsage' = trackUsage(monthlyUsage, now, SuccessUsage(r))
  /\ usageLog' = [usageLog EXCEPT ![r] = Append(@, SuccessUsage(r))]
  /\ ledgerQueries' = [ledgerQueries EXCEPT ![r] = @ + 1]
  /\ result' = [result EXCEPT ![r] =
                  [kind |-> "return", success |-> TRUE,
                   html |-> paidResponse[r].html, error |-> lastError[r],
                   attempts |-> 0, via |-> "paid",
                   creditsUsed |-> paidResponse[r].credits]]
  /\ pc' = [pc EXCEPT ![r] = "done"]
  /\ UNCHANGED << now, ticks, retryConfig, opts, attempt, totalRequestCount, lastError,
                  paidResponse, freeCalls, sleeps, paidCalls >>
  /\ UNCHANGED << delays, ledgerVars, engineVars, classifierVars, controllerVars >>

\* trackUsage of the catch block, then the error is thrown again
TrackFailure(r) ==
  /\ pc[r] = "trackFailure"
  /\ monthlyUsage' = trackUsage(monthlyUsage, now, FailureUsage(r))
  /\ usageLog' = [usageLog EXCEPT ![r] = Append(@, FailureUsage(r))]
  /\ ledgerQueries' = [ledgerQueries EXCEPT ![r] = @ + 1]
  /\ result' = [result EXCEPT ![r] =
                  [kind |-> "throw", success |-> FALSE, html |-> "",
                   error |-> IF paidResponse[r].error # NoError
                             THEN paidResponse[r].error ELSE NoContentReceived,
                   attempts |-> 0, via |-> "paid", creditsUsed |-> 0]]
  /\ pc' = [pc EXCEPT ![r] = "done"]
  /\ UNCHANGED << now, ticks, retryConfig, opts, attempt, totalRequestCount, lastError,
                  paidResponse, freeCalls, sleeps, paidCalls >>
  /\ UNCHANGED << delays, ledgerVars, engineVars, classifierVars, controllerVars >>

\* the caller has consumed the outcome; the slot serves the next request
Finish(r) ==
  /\ pc[r] = "done"
  /\ pc' = [pc EXCEPT ![r] = "idle"]
  /\ opts' = [opts EXCEPT ![r] = NoOpts]
  /\ attempt' = [attempt EXCEPT ![r] = 0]
  /\ totalRequestCount' = [totalRequestCount EXCEPT ![r] = 0]
  /\ lastError' = [lastError EXCEPT ![r] = NoError]
  /\ paidResponse' = [paidResponse EXCEPT ![r] = NoPaidResponse]
  /\ result' = [result EXCEPT ![r] = NoResult]
  /\ freeCalls' = [freeCalls EXCEPT ![r] = 0]
  /\ sleeps' = [sleeps EXCEPT ![r] = 0]
  /\ paidCalls' = [paidCalls EXCEPT ![r] = 0]
  /\ ledgerQueries' = [ledgerQueries EXCEPT ![r] = 0]
  /\ usageLog' = [usageLog EXCEPT ![r] = << >>]
  /\ delays' = [delays EXCEPT ![r] = << >>]
  /\ UNCHANGED << now, ticks, monthlyUsage, retryConfig >>
  /\ UNCHANGED << ledgerVars, engineVars, classifierVars, controllerVars >>

\* the wall clock passes into the next calendar month
Tick ==
  /\ ticks < MaxTicks
  /\ ticks' = ticks + 1
  /\ now' = IF now.month = 11
            THEN [year |-> now.year + 1, month |-> 0]
            ELSE [year |-> now.year, month |-> now.month + 1]
  /\ UNCHANGED << monthlyUsage, retryConfig, reqVars >>
  /\ UNCHANGED << ledgerVars, engineVars, classifierVars, controllerVars >>

\* the request whose call is followed step by step
Sequential == {1}

Next ==
  \/ \E r \in Sequential : Start(r)
  \/ \E r \in Sequential : FreeAttempt(r)
  \/ \E r \in Sequential : Sleep(r)
  \/ \E r \in Sequential : FallbackDecision(r)
  \/ \E r \in Sequential : CheckCredits(r)
  \/ \E r \in Sequential : PaidCall(r)
  \/ \E r \in Sequential : TrackSuccess(r)
  \/ \E r \in Sequential : TrackFailure(r)
  \/ \E r \in Sequential : Finish(r)

\* calls made within one calendar month
Spec == Init /\ [][Next]_vars

\* the steps of a call that follow a settled await: each free-strategy call,
\* backoff sleep, ledger call and paid-provider call of request r settles
Settles(r) ==
  \/ FreeAttempt(r)
  \/ Sleep(r)
  \/ FallbackDecision(r)
  \/ CheckCredits(r)
  \/ PaidCall(r)
  \/ TrackSuccess(r)
  \/ TrackFailure(r)

\* calls whose awaited operations all terminate
TerminationSpec ==
  Init /\ [][Next]_vars /\ \A r \in Sequential : WF_vars(Settles(r))

\* calls during which the calendar month may roll over
RolloverNext ==
  \/ Next
  \/ Tick

RolloverSpec == RolloverInit /\ [][RolloverNext]_vars

\* resetMonthlyUsage: the cache and lastReset after a call made at wall clock
\* t on day d of the month
resetMonthlyUsage(m, last, t, d) ==
  IF d = 1 /\ t.month # last.month
  THEN [monthlyUsage |-> << >>, lastReset |-> [year |-> t.year, month |-> t.month, date |-> d]]
  ELSE [monthlyUsage |-> m, lastReset |-> last]

\* GET reset-usage (ScraperMonitoringController.resetUsage)
resetUsage ==
  /\ admin.pc = "idle"
  /\ LET after == resetMonthlyUsage(monthlyUsage, lastReset, now, date)
     IN  /\ monthlyUsage' = after.monthlyUsage
         /\ lastReset' = after.lastReset
  /\ admin' = [pc |-> "replied", success |-> TRUE]
  /\ UNCHANGED << now, ticks, retryConfig, reqVars, date, spend, paid, scroll >>
  /\ UNCHANGED << engineVars, classifierVars, controllerVars >>

\* the reply to reset-usage has been sent
resetUsageReplied ==
  /\ admin.pc = "replied"
  /\ admin' = [pc |-> "idle", success |-> FALSE]
  /\ UNCHANGED << now, ticks, monthlyUsage, retryConfig, reqVars, date, lastReset, spend, paid, scroll >>
  /\ UNCHANGED << engineVars, classifierVars, controllerVars >>

\* the wall clock passes into the next day, and into the next calendar month
\* after the last day of the month
NextDay ==
  /\ IF date < MaxDay
     THEN /\ date' = date + 1
          /\ UNCHANGED << now, ticks >>
     ELSE /\ ticks < MaxTicks
          /\ ticks' = ticks + 1
          /\ date' = 1
          /\ now' = IF now.month = 11
                    THEN [year |-> now.year + 1, month |-> 0]
                    ELSE [year |-> now.year, month |-> now.month + 1]
  /\ UNCHANGED << monthlyUsage, retryConfig, reqVars, lastReset, admin, spend, paid, scroll >>
  /\ UNCHANGED << engineVars, classifierVars, controllerVars >>

\* calls and reset requests made while days and months pass
LedgerNext ==
  \/ Next
  \/ resetUsage
  \/ resetUsageReplied
  \/ NextDay

LedgerSpec == RolloverInit /\ [][LedgerNext]_vars

\* the services whose credits the ledger records
Services == {"scraperapi", "scrapingdog"}

\* credit amounts of a usage entry: a failed call, a default site, jobs.bg
CreditAmounts == {0, DefaultCredits, JobsBgCredits}

\* trackUsage up to its first await: the key is built and the cache entry is
\* read and written in one synchronous run; persistUsage is awaited when
\* creditTracking.persistToDb is set, checkLimitsAndAlert otherwise
trackUsageEntered(r) ==
  /\ spend[r].pc = "idle"
  /\ \E service \in Services, credits \in CreditAmounts, persistToDb \in BOOLEAN :
       LET usage == [service |-> service, credits |-> credits]
       IN  /\ UsageOf(monthlyUsage, UsageKey(service, now)) < FreeMonthlyLimit
           /\ monthlyUsage' = trackUsage(monthlyUsage, now, usage)
           /\ spend' = [spend EXCEPT ![r] =
                          [pc |-> IF persistToDb THEN "persistUsage" ELSE "checkLimitsAndAlert",
                           service |-> service, credits |-> credits]]
  /\ UNCHANGED << now, ticks, retryConfig, reqVars, date, lastReset, admin, paid, scroll >>
  /\ UNCHANGED << engineVars, classifierVars, controllerVars >>

\* `await this.persistUsage(usage)` settles (it only logs)
persistUsageSettled(r) ==
  /\ spend[r].pc = "persistUsage"
  /\ spend' = [spend EXCEPT ![r].pc = "checkLimitsAndAlert"]
  /\ UNCHANGED << now, ticks, monthlyUsage, retryConfig, reqVars, date, lastReset, admin, paid, scroll >>
  /\ UNCHANGED << engineVars, classifierVars, controllerVars >>

\* `await this.checkLimitsAndAlert(...)` settles: it reads the usage
\* percentage and logs, then trackUsage returns
checkLimitsAndAlertSettled(r) ==
  /\ spend[r].pc = "checkLimitsAndAlert"
  /\ spend' = [spend EXCEPT ![r] = NoSpend]
  /\ UNCHANGED << now, ticks, monthlyUsage, retryConfig, reqVars, date, lastReset, admin, paid, scroll >>
  /\ UNCHANGED << engineVars, classifierVars, controllerVars >>

\* spend recordings of several callers in flight at once
SpendNext ==
  \/ \E r \in Requests : trackUsageEntered(r)
  \/ \E r \in Requests : persistUsageSettled(r)
  \/ \E r \in Requests : checkLimitsAndAlertSettled(r)

SpendSpec == IdleInit /\ [][SpendNext]_vars

(***************************************************************************)
(* PaidScraperService.scrapeWithFallback.                                  *)
(***************************************************************************)
\* what ScrapingDog's endpoint can answer
DogOutcomes == {"html", "minimal", "errorPayload", "shortErrorPayload", "httpError"}

\* length of `typeof response.data === 'string' ? response.data :
\* scrapingDogResponse.html || ''`: a JSON body arrives parsed and an error
\* payload has no `html` field
DogHtmlLength(net) == IF net \in ErrorPayloads THEN 0 ELSE PaidHtmlLength(net)

\* scrapeWithScrapingDog: throws when no API key is set, otherwise catches
\* every failure of the request and returns a failure response
scrapeWithScrapingDog(net, siteName, config) ==
  IF ~config.apiKey
  THEN [kind |-> "throw", success |-> FALSE, html |-> "", credits |-> 0,
        error |-> "ScrapingDog not configured", body |-> net]
  ELSE IF net = "httpError"
  THEN [kind |-> "response", success |-> FALSE, html |-> "", credits |-> 0,
        error |-> "Request failed", body |-> net]
  ELSE IF DogHtmlLength(net) < MinimalPaidLength
  THEN [kind |-> "response", success |-> FALSE, html |-> "", credits |-> 0,
        error |-> "ScrapingDog returned empty or minimal content", body |-> net]
  ELSE [kind |-> "response", success |-> TRUE, html |-> "dogcontent",
        credits |-> calculateCredits(siteName, "scrapingdog"), error |-> NoError,
        body |-> net]

\* isScraperAPIAvailable / isScrapingDogAvailable
isAvailable(config) == config.enabled /\ config.apiKey

AllExhausted ==
  [kind |-> "throw", success |-> FALSE, html |-> "", credits |-> 0,
   error |-> "All paid scraping services exhausted or unavailable", body |-> "none"]

\* the part of scrapeWithFallback after the ScraperAPI block
AfterScraperAPI(p) ==
  IF isAvailable(p.scrapingdog)
  THEN [p EXCEPT !.pc = "scrapingdog"]
  ELSE [p EXCEPT !.pc = "settled", !.result = AllExhausted]

\* scrapeWithFallback is called and runs up to its first await
scrapeWithFallback ==
  /\ paid.pc = "idle"
  /\ \E siteName \in Sites, scraperapi \in ProviderConfigs, scrapingdog \in ProviderConfigs :
       LET p == [NoPaid EXCEPT !.siteName = siteName, !.scraperapi = scraperapi,
                               !.scrapingdog = scrapingdog]
       IN  paid' = IF isAvailable(scraperapi)
                   THEN [p EXCEPT !.pc = "scraperapi"]
                   ELSE AfterScraperAPI(p)
  /\ UNCHANGED << now, ticks, monthlyUsage, retryConfig, reqVars, date, lastReset, admin, spend, scroll >>
  /\ UNCHANGED << engineVars, classifierVars, controllerVars >>

\* `return await this.scrapeWithScraperAPI(options)` settles: a response is
\* returned to the caller, a thrown error is logged and the method goes on
scraperAPISettled ==
  /\ paid.pc = "scraperapi"
  /\ \E net \in NetOutcomes :
       /\ (net = "notConfigured") = ~paid.scraperapi.apiKey
       /\ LET r == scrapeWithScraperAPI(net, paid.siteName)
              p == [paid EXCEPT !.first = r, !.calls = Append(@, "scraperapi")]
          IN  paid' = IF r.kind = "throw"
                      THEN AfterScraperAPI(p)
                      ELSE [p EXCEPT !.pc = "settled", !.result = r]
  /\ UNCHANGED << now, ticks, monthlyUsage, retryConfig, reqVars, date, lastReset, admin, spend, scroll >>
  /\ UNCHANGED << engineVars, classifierVars, controllerVars >>

\* `return await this.scrapeWithScrapingDog(options)` settles
scrapingDogSettled ==
  /\ paid.pc = "scrapingdog"
  /\ \E net \in DogOutcomes :
       LET r == scrapeWithScrapingDog(net, paid.siteName, paid.scrapingdog)
           p == [paid EXCEPT !.calls = Append(@, "scrapingdog")]
       IN  paid' = IF r.kind = "throw"
                   THEN [p EXCEPT !.pc = "settled", !.result = AllExhausted]
                   ELSE [p EXCEPT !.pc = "settled", !.result = r]
  /\ UNCHANGED << now, ticks, monthlyUsage, retryConfig, reqVars, date, lastReset, admin, spend, scroll >>
  /\ UNCHANGED << engineVars, classifierVars, controllerVars >>

\* the caller has consumed the outcome
scrapeWithFallbackSettled ==
  /\ paid.pc = "settled"
  /\ paid' = NoPaid
  /\ UNCHANGED << now, ticks, monthlyUsage, retryConfig, reqVars, date, lastReset, admin, spend, scroll >>
  /\ UNCHANGED << engineVars, classifierVars, controllerVars >>

PaidNext ==
  \/ scrapeWithFallback
  \/ scraperAPISettled
  \/ scrapingDogSettled
  \/ scrapeWithFallbackSettled

PaidSpec == IdleInit /\ [][PaidNext]_vars

(***************************************************************************)
(* BrowserEngineService.performInfiniteScroll.                             *)
(***************************************************************************)
\* values of `document.body.scrollHeight`
Heights == 0..MaxHeight

\* the loop without its cap on the number of iterations
ScrollContinuesUncapped(previousHeight, currentHeight, attempts) ==
  previousHeight # currentHeight

\* `previousHeight !== currentHeight && attempts < maxAttempts`
ScrollContinues(previousHeight, currentHeight, attempts) ==
  previousHeight # currentHeight /\ attempts < MaxScrollAttempts

\* the call starts: `previousHeight = 0`, the first height is measured
performInfiniteScroll ==
  /\ scroll.pc = "idle"
  /\ \E h \in Heights :
       scroll' = [pc |-> "loop", previousHeight |-> 0, currentHeight |-> h, attempts |-> 0]
  /\ UNCHANGED << now, ticks, monthlyUsage, retryConfig, reqVars, date, lastReset, admin,
                  spend, paid >>
  /\ UNCHANGED << engineVars, classifierVars, controllerVars >>

\* one iteration of the loop: scroll down, wait, measure the new height
scrollIteration ==
  /\ scroll.pc = "loop"
  /\ ScrollContinues(scroll.previousHeight, scroll.currentHeight, scroll.attempts)
  /\ \E h \in Heights :
       scroll' = [scroll EXCEPT !.previousHeight = scroll.currentHeight,
                                !.currentHeight = h, !.attempts = @ + 1]
  /\ UNCHANGED << now, ticks, monthlyUsage, retryConfig, reqVars, date, lastReset, admin,
                  spend, paid >>
  /\ UNCHANGED << engineVars, classifierVars, controllerVars >>

\* the loop condition is false: the page is scrolled back to the top and the
\* call returns
scrollReturned ==
  /\ scroll.pc = "loop"
  /\ ~ScrollContinues(scroll.previousHeight, scroll.currentHeight, scroll.attempts)
  /\ scroll' = [scroll EXCEPT !.pc = "returned"]
  /\ UNCHANGED << now, ticks, monthlyUsage, retryConfig, reqVars, date, lastReset, admin,
                  spend, paid >>
  /\ UNCHANGED << engineVars, classifierVars, controllerVars >>

\* the caller goes on; a later fetch may scroll again
scrollReleased ==
  /\ scroll.pc = "returned"
  /\ scroll' = NoScroll
  /\ UNCHANGED << now, ticks, monthlyUsage, retryConfig, reqVars, date, lastReset, admin,
                  spend, paid >>
  /\ UNCHANGED << engineVars, classifierVars, controllerVars >>

ScrollNext ==
  \/ performInfiniteScroll
  \/ scrollIteration
  \/ scrollReturned
  \/ scrollReleased

\* scroll loops whose page operations all settle
ScrollSpec ==
  IdleInit /\ [][ScrollNext]_vars /\ WF_vars(scrollIteration \/ scrollReturned)

\* the retry loop of one call up to the paid-fallback decision
BackoffNext ==
  \/ \E r \in Sequential : Start(r)
  \/ \E r \in Sequential : FreeAttempt(r)
  \/ \E r \in Sequential : Sleep(r)
  \/ \E r \in Sequential : FallbackDecision(r)
  \/ \E r \in Sequential : Finish(r)

BackoffSpec == BackoffInit /\ [][BackoffNext]_vars

\* every request slot runs; the awaits of different requests interleave
ConcurrentNext ==
  \/ \E r \in Requests : Start(r)
  \/ \E r \in Requests : FreeAttempt(r)
  \/ \E r \in Requests : Sleep(r)
  \/ \E r \in Requests : FallbackDecision(r)
  \/ \E r \in Requests : CheckCredits(r)
  \/ \E r \in Requests : PaidCall(r)
  \/ \E r \in Requests : TrackSuccess(r)
  \/ \E r \in Requests : TrackFailure(r)
  \/ \E r \in Requests : Finish(r)

ConcurrentSpec == ConcurrentInit /\ [][ConcurrentNext]_vars

(***************************************************************************)
(* Session pool (BrowserEngineService) and the jobs.bg bypass              *)
(* (AntiBypassService): one action per call and per settled await.         *)
(***************************************************************************)
nonEngineVars == << orchestratorVars, classifierVars, controllerVars >>

\* `Map.set` and `Map.delete`
Put(m, k, v) == [x \in DOMAIN m \cup {k} |-> IF x = k THEN v ELSE m[x]]

Delete(m, k) == [x \in DOMAIN m \ {k} |-> m[x]]

\* calls that are going to create a browsing context
Creating(q) ==
  \/ call[q].pc \in {"launch", "newContext"}
  \/ (call[q].op = "rotateSession" /\ call[q].pc = "closing")

CanCreate ==
  Len(contexts) + Cardinality({q \in Clients : Creating(q)}) < MaxContexts

\* bypass runs in progress, each making two fetchPage calls
Fetching(q) == call[q].op = "executeJobsBgBypass" /\ call[q].pc # "returned"

CanFetch ==
  stats.totalRequests + 2 * Cardinality({q \in Clients : Fetching(q)}) + 2
    <= MaxFetches

\* ids a client can name: the registered ones and those of the configurations
KnownIds ==
  DOMAIN sessions \cup {generateSessionId(c, FALSE, 0) : c \in SessionConfigs}

\* the draw of `Date.now()-Math.random()`: a salt no id has carried so far
UsedSalts(base) ==
  {contexts[i].id.salt : i \in {j \in DOMAIN contexts : contexts[j].id.base = base}}
    \cup {call[q].id.salt : q \in {x \in Clients : call[x].id.base = base}}
    \cup {call[q].arg.salt : q \in {x \in Clients : call[x].arg.base = base}}

FreshSalt(base) ==
  CHOOSE s \in Salts \ UsedSalts(base) :
    \A t \in Salts \ UsedSalts(base) : s <= t

\* the call has settled with value r
Returned(c, r) == [c EXCEPT !.pc = "returned", !.ret = r]

\* an error thrown inside the call: executeJobsBgBypass catches it and
\* returns a failure response, the pool's methods let it escape
Raised(c, error) ==
  Returned(c, IF c.op = "executeJobsBgBypass"
              THEN ResponseRet([kind |-> "response", success |-> FALSE,
                                html |-> "", error |-> error])
              ELSE ThrowRet(error))

\* getSession or createNewSession hands the session to its caller
SessionObtained(c, id, context) ==
  IF c.op = "executeJobsBgBypass"
  THEN [c EXCEPT !.pc = "homepage", !.id = id, !.context = context]
  ELSE Returned([c EXCEPT !.id = id, !.context = context], SessionRet(id, context))

\* createNewSession up to its first await: `if (!this.browser)`
EnterCreate(c, config, id) ==
  [c EXCEPT !.config = config, !.id = id,
            !.pc = IF browser = 0 THEN "launch" ELSE "newContext"]

\* the IBrowserSession built by createNewSession; `createdAt`, which no code
\* reads, is left out
NewSession(id, context, config) ==
  [id |-> id, context |-> context, config |-> config, lastActivity |-> clock,
   requestCount |-> 0]

\* getSession up to its return or to the first await of createNewSession
EnterGetSession(p, op, config) ==
  LET sessionId == generateSessionId(config, FALSE, 0)
      c == [call[p] EXCEPT !.op = op, !.config = config]
  IN  IF sessionId \in DOMAIN sessions
      THEN /\ sessions' = [sessions EXCEPT ![sessionId].lastActivity = clock]
           /\ call' = [call EXCEPT ![p] =
                         SessionObtained(c, sessionId, sessions[sessionId].context)]
      ELSE /\ CanCreate
           /\ sessions' = sessions
           /\ call' = [call EXCEPT ![p] = EnterCreate(c, config, sessionId)]

getSession(p) ==
  /\ call[p].pc = "idle"
  /\ \E config \in SessionConfigs : EnterGetSession(p, "getSession", config)
  /\ UNCHANGED << browser, contexts, stats, clock >>
  /\ UNCHANGED nonEngineVars

\* `this.browser = await this.launchBrowser(config)` settles
launchBrowser(p) ==
  /\ call[p].pc = "launch"
  /\ \E ok \in BOOLEAN :
       IF ok
       THEN /\ browser' = browser + 1
            /\ call' = [call EXCEPT ![p].pc = "newContext"]
       ELSE /\ browser' = browser
            /\ call' = [call EXCEPT ![p] =
                          Raised(@, "Browser initialization failed")]
  /\ UNCHANGED << contexts, sessions, stats, clock >>
  /\ UNCHANGED nonEngineVars

\* `await this.createBrowserContext(config, browserConfig)` settles
createBrowserContext(p) ==
  /\ call[p].pc = "newContext"
  /\ \E ok \in BOOLEAN :
       IF ok
       THEN /\ contexts' = Append(contexts, [live |-> TRUE, browser |-> browser,
                                             id |-> call[p].id])
            /\ call' = [call EXCEPT ![p].pc = "newPage",
                                    ![p].context = Len(contexts) + 1]
       ELSE /\ contexts' = contexts
            /\ call' = [call EXCEPT ![p] = Raised(@, "newContext failed")]
  /\ UNCHANGED << browser, sessions, stats, clock >>
  /\ UNCHANGED nonEngineVars

\* `await this.createBrowserPage(context, config)` settles; the session is
\* built, registered with `this.sessions.set(id, session)` and returned
createBrowserPage(p) ==
  /\ call[p].pc = "newPage"
  /\ \E ok \in BOOLEAN :
       IF ok
       THEN /\ sessions' = Put(sessions, call[p].id,
                               NewSession(call[p].id, call[p].context,
                                          call[p].config))
            /\ call' = [call EXCEPT ![p] =
                          SessionObtained(@, call[p].id, call[p].context)]
       ELSE /\ sessions' = sessions
            /\ call' = [call EXCEPT ![p] = Raised(@, "newPage failed")]
  /\ UNCHANGED << browser, contexts, stats, clock >>
  /\ UNCHANGED nonEngineVars

\* closeSession up to `await session.context.close()`
closeSession(p) ==
  /\ call[p].pc = "idle"
  /\ \E id \in KnownIds :
       LET c == [call[p] EXCEPT !.op = "closeSession", !.arg = id]
       IN  call' = [call EXCEPT ![p] =
                      IF id \in DOMAIN sessions
                      THEN [c EXCEPT !.pc = "closing",
                                     !.pending = {[id |-> id,
                                                   context |-> sessions[id].context]}]
                      ELSE Returned(c, VoidRet)]
  /\ UNCHANGED << browser, contexts, sessions, stats, clock >>
  /\ UNCHANGED nonEngineVars

\* closeAllSessions: every closeSession of `Promise.all` runs up to its await
closeAllSessions(p) ==
  /\ call[p].pc = "idle"
  /\ LET c == [call[p] EXCEPT !.op = "closeAllSessions"]
         all == {[id |-> id, context |-> sessions[id].context] :
                   id \in DOMAIN sessions}
     IN  call' = [call EXCEPT ![p] =
                    IF all # {}
                    THEN [c EXCEPT !.pc = "closing", !.pending = all]
                    ELSE Returned(c, VoidRet)]
  /\ UNCHANGED << browser, contexts, sessions, stats, clock >>
  /\ UNCHANGED nonEngineVars

\* rotateSession up to the await inside closeSession
rotateSession(p) ==
  /\ call[p].pc = "idle"
  /\ \E id \in KnownIds :
       LET c == [call[p] EXCEPT !.op = "rotateSession", !.arg = id]
       IN  IF id \in DOMAIN sessions
           THEN /\ CanCreate
                /\ call' = [call EXCEPT ![p] =
                              [c EXCEPT !.pc = "closing",
                                        !.config = sessions[id].config,
                                        !.pending = {[id |-> id,
                                                      context |-> sessions[id].context]}]]
           ELSE call' = [call EXCEPT ![p] = Raised(c, "Session not found")]
  /\ UNCHANGED << browser, contexts, sessions, stats, clock >>
  /\ UNCHANGED nonEngineVars

\* `await session.context.close(); this.sessions.delete(sessionId)` inside
\* try / catch: a close that throws leaves the registration in place
AfterContextClose(m, id, ok) == IF ok THEN Delete(m, id) ELSE m

\* one `session.context.close()` settles; when it was the last one pending the
\* call returns, or rotateSession goes on to create the replacement
contextClose(p) ==
  /\ call[p].pc = "closing"
  /\ \E x \in call[p].pending, ok \in BOOLEAN :
       LET rest == call[p].pending \ {x}
           c == [call[p] EXCEPT !.pending = rest]
       IN  /\ contexts' = IF ok THEN [contexts EXCEPT ![x.context].live = FALSE]
                          ELSE contexts
           /\ sessions' = AfterContextClose(sessions, x.id, ok)
           /\ call' = [call EXCEPT ![p] =
                         IF rest # {} THEN c
                         ELSE IF c.op = "rotateSession"
                         THEN EnterCreate(c, c.config,
                                generateSessionId(c.config, TRUE,
                                                  FreshSalt(BaseStr(c.config))))
                         ELSE Returned(c, VoidRet)]
  /\ UNCHANGED << browser, stats, clock >>
  /\ UNCHANGED nonEngineVars

\* executeJobsBgBypass up to the return of getSession
executeJobsBgBypass(p) ==
  /\ call[p].pc = "idle"
  /\ CanFetch
  /\ EnterGetSession(p, "executeJobsBgBypass", JobsBgBypassConfig)
  /\ UNCHANGED << browser, contexts, stats, clock >>
  /\ UNCHANGED nonEngineVars

\* fetchPage up to its navigation: `session.lastActivity = new Date();
\* session.requestCount++` on the session object the caller holds
TouchSession(m, id, context) ==
  IF id \in DOMAIN m /\ m[id].context = context
  THEN [m EXCEPT ![id].requestCount = @ + 1, ![id].lastActivity = clock]
  ELSE m

\* the `finally` of fetchPage: `session.lastActivity = new Date()`
SettleSession(m, id, context) ==
  IF id \in DOMAIN m /\ m[id].context = context
  THEN [m EXCEPT ![id].lastActivity = clock]
  ELSE m

\* a failed fetch left out of the request count
CountFetchSuccessesOnly(s, o, loadTime) ==
  [totalRequests |-> s.totalRequests + (IF o.success THEN 1 ELSE 0),
   totalLoadTime |-> s.totalLoadTime + loadTime,
   successfulRequests |-> s.successfulRequests + (IF o.success THEN 1 ELSE 0)]

\* the statistics after a fetch that ended with response o
CountFetch(s, o, loadTime) ==
  [totalRequests |-> s.totalRequests + 1,
   totalLoadTime |-> s.totalLoadTime + loadTime,
   successfulRequests |-> s.successfulRequests + (IF o.success THEN 1 ELSE 0)]

\* what fetchPage can produce on a context: nothing but an error once the
\* context is closed
FetchOutcomesOn(context) ==
  {o \in FetchOutcomes : contexts[context].live \/ ~o.success}

\* the error Playwright raises from an operation on a closed page or context
TargetClosed == "Target page, context or browser has been closed"

\* how the operation handed to safePageOperation can end: it resolves, or it
\* rejects with the closed-target error or with another error
StepOutcomes ==
  { "resolved", TargetClosed, "page.evaluate: " \o TargetClosed, "PageOperationFailed" }

\* `error.message.includes(...)` for the three phrases of safePageOperation
IsConnectionError(message) ==
  message \in { TargetClosed, "page.evaluate: " \o TargetClosed }

\* every error of the operation thrown on
safePageOperationRethrowing(isClosed, outcome) ==
  IF isClosed THEN [kind |-> "null", error |-> NoError]
  ELSE IF outcome = "resolved" THEN [kind |-> "value", error |-> NoError]
  ELSE [kind |-> "throw", error |-> outcome]

\* safePageOperation: null for a closed page and for a connection error of
\* the operation, the operation's value otherwise; other errors are rethrown
safePageOperation(isClosed, outcome) ==
  IF isClosed THEN [kind |-> "null", error |-> NoError]
  ELSE IF outcome = "resolved" THEN [kind |-> "value", error |-> NoError]
  ELSE IF IsConnectionError(outcome) THEN [kind |-> "null", error |-> NoError]
  ELSE [kind |-> "throw", error |-> outcome]

\* a safePageOperation step of the bypass runs; when it rethrows, the run
\* ends, otherwise fetchPage is entered and runs up to its navigation
BeginFetch(p, loading) ==
  \E outcome \in StepOutcomes :
    LET r == safePageOperation(~contexts[call[p].context].live, outcome)
    IN  IF r.kind = "throw"
        THEN /\ call' = [call EXCEPT ![p] = Raised([@ EXCEPT !.step = r.kind], r.error)]
             /\ sessions' = sessions
        ELSE /\ sessions' = TouchSession(sessions, call[p].id, call[p].context)
             /\ call' = [call EXCEPT ![p].pc = loading, ![p].startTime = clock,
                                     ![p].step = r.kind]

\* phase 1: the header step, then the homepage visit starts
visitHomepage(p) ==
  /\ call[p].pc = "homepage"
  /\ BeginFetch(p, "homepageLoading")
  /\ UNCHANGED << browser, contexts, stats, clock >>
  /\ UNCHANGED nonEngineVars

\* the strategy given up when the homepage visit fails
AfterHomepageAborting(o) == IF o.success THEN "simulate" ELSE "returned"

\* `if (!homepageResponse.success) warn('Homepage failed, but continuing...')`:
\* phase 2 follows whatever the homepage visit produced
AfterHomepage(o) == "simulate"

\* the homepage visit settles; its failure is only logged
homepageFetched(p) ==
  /\ call[p].pc = "homepageLoading"
  /\ \E o \in FetchOutcomesOn(call[p].context) :
       /\ stats' = CountFetch(stats, o, clock - call[p].startTime)
       /\ call' = [call EXCEPT ![p].pc = AfterHomepage(o)]
  /\ sessions' = SettleSession(sessions, call[p].id, call[p].context)
  /\ UNCHANGED << browser, contexts, clock >>
  /\ UNCHANGED nonEngineVars

\* a safePageOperation step of the bypass that is followed by another await
\* of the strategy: when it rethrows, the run ends
SafeStep(p, next) ==
  \E outcome \in StepOutcomes :
    LET r == safePageOperation(~contexts[call[p].context].live, outcome)
    IN  call' = [call EXCEPT ![p] =
                   IF r.kind = "throw"
                   THEN Raised([@ EXCEPT !.step = r.kind], r.error)
                   ELSE [@ EXCEPT !.pc = next, !.step = r.kind]]

\* phase 2: `await this.simulateDesktopBehavior(session)` settles
simulateDesktopBehavior(p) ==
  /\ call[p].pc = "simulate"
  /\ SafeStep(p, "wait")
  /\ UNCHANGED << browser, contexts, sessions, stats, clock >>
  /\ UNCHANGED nonEngineVars

\* phase 3: the wait of 10 to 20 seconds settles
ultraWait(p) ==
  /\ call[p].pc = "wait"
  /\ SafeStep(p, "target")
  /\ UNCHANGED << browser, contexts, sessions, stats, clock >>
  /\ UNCHANGED nonEngineVars

\* phase 4 (setJobSearchHeaders) settles, then the navigation to the target
\* starts
visitTarget(p) ==
  /\ call[p].pc = "target"
  /\ BeginFetch(p, "targetLoading")
  /\ UNCHANGED << browser, contexts, stats, clock >>
  /\ UNCHANGED nonEngineVars

\* what executeJobsBgBypass hands back once executeMultiPhaseBypass has
\* resolved with response o: the awaited value is dropped, the function
\* ends without a return statement
executeJobsBgBypassReturn(o) == UndefinedRet

\* phase 5: the navigation to the target settles, executeMultiPhaseBypass
\* resolves with its response and executeJobsBgBypass ends
targetFetched(p) ==
  /\ call[p].pc = "targetLoading"
  /\ \E o \in FetchOutcomesOn(call[p].context) :
       /\ stats' = CountFetch(stats, o, clock - call[p].startTime)
       /\ call' = [call EXCEPT ![p] =
                     Returned([@ EXCEPT !.navigation = o],
                              executeJobsBgBypassReturn(o))]
  /\ sessions' = SettleSession(sessions, call[p].id, call[p].context)
  /\ UNCHANGED << browser, contexts, clock >>
  /\ UNCHANGED nonEngineVars

\* the caller has taken the outcome; a call that handed back a session, and
\* a bypass run, is remembered as the client's previous call
Resume(p) ==
  /\ call[p].pc = "returned"
  /\ call' = [call EXCEPT ![p] =
                [NoCall EXCEPT !.prev =
                   IF call[p].ret.kind = "session"
                   THEN [NoPrev EXCEPT !.op = call[p].op, !.config = call[p].config,
                                       !.arg = call[p].arg, !.kind = call[p].ret.kind,
                                       !.id = call[p].ret.id,
                                       !.context = call[p].ret.context]
                   ELSE IF call[p].op = "executeJobsBgBypass"
                   THEN [NoPrev EXCEPT !.op = call[p].op, !.config = call[p].config,
                                       !.kind = call[p].ret.kind, !.id = call[p].id,
                                       !.context = call[p].context,
                                       !.error = call[p].navigation.error]
                   ELSE NoPrev]]
  /\ UNCHANGED << browser, contexts, sessions, stats, clock >>
  /\ UNCHANGED nonEngineVars

\* the caller has taken the outcome and keeps nothing of the call
Release(p) ==
  /\ call[p].pc = "returned"
  /\ call' = [call EXCEPT ![p] = NoCall]
  /\ UNCHANGED << browser, contexts, sessions, stats, clock >>
  /\ UNCHANGED nonEngineVars

\* `Math.round(a / b)` for non-negative a and positive b
RoundedQuotient(a, b) == (2 * a + b) \div (2 * b)

\* getStats(); successRate is given in hundredths
getStats ==
  [activeSessions |-> Cardinality(DOMAIN sessions),
   totalRequests |-> stats.totalRequests,
   averageLoadTime |-> IF stats.totalRequests > 0
                       THEN RoundedQuotient(stats.totalLoadTime, stats.totalRequests)
                       ELSE 0,
   successRate |-> IF stats.totalRequests > 0
                   THEN RoundedQuotient(100 * stats.successfulRequests, stats.totalRequests)
                   ELSE 0]

\* time passes for the pool
PoolTick ==
  /\ clock < MaxClock
  /\ clock' = clock + 1
  /\ UNCHANGED << browser, contexts, sessions, stats, call >>
  /\ UNCHANGED nonEngineVars

\* the client whose calls are followed one after the other
SingleClient == {1}

\* the pool driven by one caller at a time
PoolNext ==
  \/ \E p \in SingleClient : getSession(p)
  \/ \E p \in SingleClient : launchBrowser(p)
  \/ \E p \in SingleClient : createBrowserContext(p)
  \/ \E p \in SingleClient : createBrowserPage(p)
  \/ \E p \in SingleClient : closeSession(p)
  \/ \E p \in SingleClient : closeAllSessions(p)
  \/ \E p \in SingleClient : rotateSession(p)
  \/ \E p \in SingleClient : contextClose(p)
  \/ \E p \in SingleClient : Resume(p)
  \/ PoolTick

PoolSpec == IdleInit /\ [][PoolNext]_vars

\* pool calls of several clients interleaving at their awaits
ConcurrentCloseNext ==
  \/ \E p \in Clients : getSession(p)
  \/ \E p \in Clients : launchBrowser(p)
  \/ \E p \in Clients : createBrowserContext(p)
  \/ \E p \in Clients : createBrowserPage(p)
  \/ \E p \in Clients : closeSession(p)
  \/ \E p \in Clients : closeAllSessions(p)
  \/ \E p \in Clients : rotateSession(p)
  \/ \E p \in Clients : contextClose(p)
  \/ \E p \in Clients : Release(p)

ConcurrentCloseSpec == IdleInit /\ [][ConcurrentCloseNext]_vars

\* the client that shuts the pool down (onModuleDestroy) while a bypass run
\* of the other client is in flight
Closers == {2}

ShutdownNext ==
  \/ \E p \in SingleClient : executeJobsBgBypass(p)
  \/ \E p \in SingleClient : launchBrowser(p)
  \/ \E p \in SingleClient : createBrowserContext(p)
  \/ \E p \in SingleClient : createBrowserPage(p)
  \/ \E p \in SingleClient : visitHomepage(p)
  \/ \E p \in SingleClient : homepageFetched(p)
  \/ \E p \in SingleClient : simulateDesktopBehavior(p)
  \/ \E p \in SingleClient : ultraWait(p)
  \/ \E p \in SingleClient : visitTarget(p)
  \/ \E p \in SingleClient : targetFetched(p)
  \/ \E p \in Closers : closeAllSessions(p)
  \/ \E p \in Closers : contextClose(p)
  \/ \E p \in Clients : Release(p)

ShutdownSpec == IdleInit /\ [][ShutdownNext]_vars

\* bypass runs made one after the other
BypassNext ==
  \/ \E p \in SingleClient : executeJobsBgBypass(p)
  \/ \E p \in SingleClient : launchBrowser(p)
  \/ \E p \in SingleClient : createBrowserContext(p)
  \/ \E p \in SingleClient : createBrowserPage(p)
  \/ \E p \in SingleClient : visitHomepage(p)
  \/ \E p \in SingleClient : homepageFetched(p)
  \/ \E p \in SingleClient : simulateDesktopBehavior(p)
  \/ \E p \in SingleClient : ultraWait(p)
  \/ \E p \in SingleClient : visitTarget(p)
  \/ \E p \in SingleClient : targetFetched(p)
  \/ \E p \in SingleClient : closeAllSessions(p)
  \/ \E p \in SingleClient : contextClose(p)
  \/ \E p \in SingleClient : Resume(p)
  \/ PoolTick

BypassSpec == IdleInit /\ [][BypassNext]_vars

\* concurrent fetch requests: every client runs the bypass while the others
\* are between their awaits
ConcurrentPoolNext ==
  \/ \E p \in Clients : executeJobsBgBypass(p)
  \/ \E p \in Clients : launchBrowser(p)
  \/ \E p \in Clients : createBrowserContext(p)
  \/ \E p \in Clients : createBrowserPage(p)
  \/ \E p \in Clients : visitHomepage(p)
  \/ \E p \in Clients : homepageFetched(p)
  \/ \E p \in Clients : simulateDesktopBehavior(p)
  \/ \E p \in Clients : ultraWait(p)
  \/ \E p \in Clients : visitTarget(p)
  \/ \E p \in Clients : targetFetched(p)
  \/ \E p \in Clients : Resume(p)

ConcurrentPoolSpec == IdleInit /\ [][ConcurrentPoolNext]_vars

(***************************************************************************)
(* Block classifier applied to a document.                                 *)
(***************************************************************************)
\* `isBlockedChecker: (html) => this.antiBypass.isContentBlocked(html)`
classify ==
  /\ blocked = "unclassified"
  /\ blocked' = IF isContentBlocked(document) THEN "blocked" ELSE "clear"
  /\ UNCHANGED << document, orchestratorVars, engineVars, controllerVars >>

ClassifierNext == classify

ClassifierSpec == ClassifierInit /\ [][ClassifierNext]_vars

(***************************************************************************)
(* POST scraper/scrape (ScraperController.scrape).                         *)
(***************************************************************************)
nonControllerVars == << orchestratorVars, engineVars, classifierVars >>

\* largest `jobs.length` a scraper hands back
MaxJobs == 1

\* the handler up to its first await or to its early return
scrape ==
  /\ endpoint.pc = "idle"
  /\ \E url \in Urls, limit \in Limits, save \in Saves, registered \in BOOLEAN :
       LET req == [NoEndpoint EXCEPT !.url = url, !.limitNum = LimitNum(limit),
                                     !.saveToDb = SaveToDb(save)]
           siteName == extractSiteName(url)
       IN  endpoint' =
             IF UrlMissing(url)
             THEN [req EXCEPT !.pc = "replied",
                              !.reply = FailureReply("URL parameter is required")]
             ELSE IF siteName = NoSite
             THEN [req EXCEPT !.pc = "replied",
                              !.reply = FailureReply("Unsupported URL or site")]
             ELSE IF ~registered
             THEN [req EXCEPT !.pc = "replied", !.siteName = siteName,
                              !.lookups = 1,
                              !.reply = FailureReply("Scraper not available for site")]
             ELSE [req EXCEPT !.pc = "scraping", !.siteName = siteName,
                              !.lookups = 1, !.scrapeJobsCalls = 1]
  /\ UNCHANGED nonControllerVars

\* `await scraper.scrapeJobs({ limit: limitNum })` settles
scrapeJobsSettled ==
  /\ endpoint.pc = "scraping"
  /\ \E threw \in BOOLEAN, n \in 0..MaxJobs :
       endpoint' =
         IF threw
         THEN [endpoint EXCEPT !.pc = "replied",
                               !.reply = FailureReply("ScrapeJobsError")]
         ELSE IF endpoint.saveToDb /\ n > 0
         THEN [endpoint EXCEPT !.pc = "saving", !.jobs = n, !.scrapeSiteCalls = 1]
         ELSE [endpoint EXCEPT !.pc = "replied", !.jobs = n,
                               !.reply = SuccessReply(FALSE)]
  /\ UNCHANGED nonControllerVars

\* `await this.scraperService.scrapeSite(siteName, ...)` settles
scrapeSiteSettled ==
  /\ endpoint.pc = "saving"
  /\ \E threw \in BOOLEAN :
       endpoint' =
         IF threw
         THEN [endpoint EXCEPT !.pc = "replied",
                               !.reply = FailureReply("ScrapeSiteError")]
         ELSE [endpoint EXCEPT !.pc = "replied", !.reply = SuccessReply(TRUE)]
  /\ UNCHANGED nonControllerVars

\* the reply has been sent; the endpoint serves the next request
replySent ==
  /\ endpoint.pc = "replied"
  /\ endpoint' = NoEndpoint
  /\ UNCHANGED nonControllerVars

ControllerNext ==
  \/ scrape
  \/ scrapeJobsSettled
  \/ scrapeSiteSettled
  \/ replySent

ControllerSpec == IdleInit /\ [][ControllerNext]_vars

TypeOK ==
  /\ pc \in [Requests -> {"idle", "attempt", "sleep", "fallback", "paidCheck",
                          "paidCall", "trackSuccess", "trackFailure", "done"}]
  /\ \A r \in Requests : attempt[r] \in 0..(MaxAttemptsBound + 1)

(***************************************************************************)
(* Properties.                                                             *)
(***************************************************************************)
\* positions inside executeWithPaidService
PaidPositions == {"paidCheck", "paidCall", "trackSuccess", "trackFailure"}

\* positions after the retry loop has been left
AfterLoop == PaidPositions \cup {"fallback", "done"}

\* the ledger holds the same credits under every key before and after a step
LedgerSame ==
  \A k \in DOMAIN monthlyUsage \cup DOMAIN monthlyUsage' :
    UsageOf(monthlyUsage', k) = UsageOf(monthlyUsage, k)

\* C1: when every free attempt of a call has failed (the loop was not left
\* through blocking or success), the free strategy has been invoked exactly
\* maxAttempts times when the paid-fallback decision is reached, and no call
\* ever invokes it more than maxAttempts times.
C1_RetryBound ==
  \A r \in Requests :
    /\ freeCalls[r] <= retryConfig.maxAttempts
    /\ (pc[r] = "fallback" /\ lastError[r] # BlockingDetected)
         => /\ freeCalls[r] = retryConfig.maxAttempts
            /\ totalRequestCount[r] = retryConfig.maxAttempts

C1_Witness ==
  \E r \in Requests :
    /\ pc[r] = "fallback"
    /\ lastError[r] = "TransportError"
    /\ retryConfig.maxAttempts = 3
    /\ freeCalls[r] = 3

\* C2: once a free attempt k has been classified as blocked, the call is past
\* the retry loop (no further attempt, no sleep pending), it has made exactly k
\* free attempts, and only the k-1 sleeps that preceded attempt k.
C2_BlockShortCircuits ==
  \A r \in Requests :
    lastError[r] = BlockingDetected
      => /\ pc[r] \in AfterLoop
         /\ attempt[r] \in 1..retryConfig.maxAttempts
         /\ freeCalls[r] = attempt[r]
         /\ sleeps[r] = attempt[r] - 1

C2_Witness ==
  \E r \in Requests :
    /\ pc[r] = "fallback"
    /\ lastError[r] = BlockingDetected
    /\ attempt[r] = 1
    /\ retryConfig.maxAttempts = 3
    /\ sleeps[r] = 0

\* C3: a budget check made while the credits left in the month are fewer than
\* the site's credit cost ends the call with the budget error: no paid request
\* is issued, no usage is recorded and the ledger is left as it was.
C3_BudgetGate ==
  [][\A r \in Requests :
       ( /\ pc[r] = "paidCheck"
         /\ pc'[r] # "paidCheck"
         /\ FreeMonthlyLimit - Used < getCreditCost(opts[r].siteName, "scraperapi") )
       => /\ pc'[r] = "done"
          /\ result'[r].kind = "throw"
          /\ result'[r].via = "budget"
          /\ paidCalls'[r] = 0
          /\ usageLog'[r] = << >>
          /\ LedgerSame]_vars

C3_Witness ==
  \E r \in Requests :
    /\ pc[r] = "done"
    /\ result[r].via = "budget"
    /\ opts[r].siteName = "jobs.bg"
    /\ Used = FreeMonthlyLimit - 1
    /\ paidCalls[r] = 0

\* C4: a paid call that does not succeed is followed by exactly one usage
\* entry with 0 credits and successful = false, and neither the call nor that
\* entry changes the credits the ledger holds.
C4_FailedPaidNeverCharges ==
  [][\A r \in Requests :
       /\ ( /\ pc[r] = "paidCall"
            /\ pc'[r] # "paidCall"
            /\ (paidResponse'[r].kind = "throw" \/ ~paidResponse'[r].success
                  \/ paidResponse'[r].html = "") )
          => (pc'[r] = "trackFailure" /\ LedgerSame)
       /\ (pc[r] = "trackFailure" /\ pc'[r] # "trackFailure")
          => /\ pc'[r] = "done"
             /\ Len(usageLog'[r]) = 1
             /\ usageLog'[r][1].credits = 0
             /\ usageLog'[r][1].successful = FALSE
             /\ LedgerSame]_vars

C4_Witness ==
  \E r \in Requests :
    /\ pc[r] = "done"
    /\ result[r].kind = "throw"
    /\ result[r].via = "paid"
    /\ Len(usageLog[r]) = 1
    /\ Used > 0

C6_NeverOverspend == Used <= FreeMonthlyLimit

\* C7: a call that returns from the free path on attempt k returns a response
\* with success = true and non-empty html, has counted k requests after k - 1
\* backoff sleeps, and has neither called the paid provider nor read or
\* written the ledger.
C7_FreeSuccess ==
  \A r \in Requests :
    (pc[r] = "done" /\ result[r].via = "free" /\ result[r].success)
      => /\ result[r].kind = "return"
         /\ result[r].html # ""
         /\ ~(opts[r].hasChecker /\ isBlockedChecker(result[r].html))
         /\ attempt[r] \in 1..retryConfig.maxAttempts
         /\ totalRequestCount[r] = attempt[r]
         /\ freeCalls[r] = attempt[r]
         /\ sleeps[r] = attempt[r] - 1
         /\ paidCalls[r] = 0
         /\ ledgerQueries[r] = 0
         /\ usageLog[r] = << >>

C7_Witness ==
  \E r \in Requests :
    /\ pc[r] = "done"
    /\ result[r].via = "free"
    /\ result[r].success
    /\ result[r].html = "content"
    /\ lastError[r] = "TransportError"
    /\ totalRequestCount[r] = 3

\* C8: when the free path ended blocked and the paid call succeeded with c
\* credits, recording the usage returns success = true and raises the credits
\* used in the current month by exactly c, leaving every other month alone.
C8_PaidSuccessCharges ==
  [][\A r \in Requests :
       ( /\ pc[r] = "trackSuccess"
         /\ pc'[r] # "trackSuccess"
         /\ lastError[r] = BlockingDetected )
       => /\ pc'[r] = "done"
          /\ result'[r].kind = "return"
          /\ result'[r].success
          /\ result'[r].html # ""
          /\ paidResponse[r].credits = getCreditCost(opts[r].siteName, "scraperapi")
          /\ result'[r].creditsUsed = paidResponse[r].credits
          /\ Used' = Used + paidResponse[r].credits
          /\ \A k \in (DOMAIN monthlyUsage \cup DOMAIN monthlyUsage')
                        \ {UsageKey("scraperapi", now)} :
               UsageOf(monthlyUsage', k) = UsageOf(monthlyUsage, k)]_vars

C8_Witness ==
  \E r \in Requests :
    /\ pc[r] = "done"
    /\ result[r].via = "paid"
    /\ result[r].success
    /\ lastError[r] = BlockingDetected
    /\ result[r].creditsUsed = JobsBgCredits
    /\ Used = JobsBgCredits + DefaultCredits
    /\ ticks = 1

\* C9: from the moment the paid fallback is entered the call makes no further
\* free attempt and no sleep, stays on the paid path until it is done, calls
\* the paid provider at most once, and a finished call keeps its outcome
\* until the caller has taken it.
C9_PaidFallbackAbsorbing ==
  [][\A r \in Requests :
       /\ pc[r] \in PaidPositions
            => /\ pc'[r] \in PaidPositions \cup {"done"}
               /\ freeCalls'[r] = freeCalls[r]
               /\ sleeps'[r] = sleeps[r]
               /\ totalRequestCount'[r] = totalRequestCount[r]
               /\ paidCalls'[r] <= 1
       /\ pc[r] = "done"
            => \/ (pc'[r] = "done" /\ result'[r] = result[r])
               \/ pc'[r] = "idle"]_vars

C9_Witness ==
  \E r \in Requests :
    /\ pc[r] = "done"
    /\ result[r].via = "paid"
    /\ result[r].kind = "throw"
    /\ paidCalls[r] = 1
    /\ freeCalls[r] = 2

\* C10: a call made with enablePaidFallback = false never enters the paid
\* path; when its free path ends blocked or exhausted it returns success =
\* false with empty html and the last free-path error, without a ledger read
\* and without a paid call.  A call made with enablePaidFallback = true never
\* returns that failure response: past the fallback decision it is on the paid
\* path.
C10_FallbackFlag ==
  \A r \in Requests :
    /\ (pc[r] \in PaidPositions \cup {"done"} /\ ~opts[r].enablePaidFallback)
         => /\ pc[r] = "done"
            /\ result[r].kind = "return"
            /\ result[r].via = "free"
            /\ paidCalls[r] = 0
            /\ ledgerQueries[r] = 0
            /\ usageLog[r] = << >>
            /\ ~result[r].success
                 => /\ result[r].html = ""
                    /\ result[r].error = lastError[r]
                    /\ result[r].error # NoError
                    /\ result[r].attempts = retryConfig.maxAttempts
                    /\ \/ lastError[r] = BlockingDetected
                       \/ freeCalls[r] = retryConfig.maxAttempts
    /\ (pc[r] = "done" /\ opts[r].enablePaidFallback /\ result[r].via = "free")
         => result[r].success
    /\ (pc[r] = "done" /\ opts[r].enablePaidFallback /\ ~result[r].success)
         => ledgerQueries[r] >= 1

C10_Witness ==
  \E r \in Requests :
    /\ pc[r] = "done"
    /\ ~opts[r].enablePaidFallback
    /\ ~result[r].success
    /\ result[r].error = BlockingDetected
    /\ Used > 0

C10_WitnessExhausted ==
  \E r \in Requests :
    /\ pc[r] = "done"
    /\ ~opts[r].enablePaidFallback
    /\ ~result[r].success
    /\ result[r].error = NoContentReceived
    /\ freeCalls[r] = 3

\* two configurations with the same siteName, userAgent, headless and stealth
AgreeOnFingerprint(c1, c2) ==
  /\ c1.siteName = c2.siteName
  /\ c1.userAgent = c2.userAgent
  /\ c1.headless = c2.headless
  /\ c1.stealth = c2.stealth

\* getStats().activeSessions
ActiveSessions == Cardinality(DOMAIN sessions)

\* the context is the one of a registered session
Registered(i) == \E id \in DOMAIN sessions : sessions[id].context = i

\* the context is held by a createNewSession call that has not registered it yet
BeingSetUp(i) ==
  \E p \in Clients : call[p].pc = "newPage" /\ call[p].context = i

\* the client is inside executeMultiPhaseBypass, working on its session
Driving(p) ==
  /\ call[p].op = "executeJobsBgBypass"
  /\ call[p].pc \in {"homepage", "homepageLoading", "simulate", "wait", "target",
                     "targetLoading"}

\* C11: when a client's getSession has returned a session and the same
\* client's next pool call is a getSession whose configuration agrees with the
\* first on siteName, userAgent, headless and stealth, that call returns at
\* once the same session (same id, same context), creates no context,
\* registers nothing new and sets the session's lastActivity to the current
\* time, leaving every other session as it was.
C11_SameFingerprintSameSession ==
  [][\A p \in Clients :
       ( /\ call[p].pc = "idle"
         /\ call'[p].op = "getSession"
         /\ call[p].prev.op = "getSession"
         /\ call[p].prev.kind = "session"
         /\ AgreeOnFingerprint(call[p].prev.config, call'[p].config) )
       => /\ call'[p].pc = "returned"
          /\ call'[p].ret.kind = "session"
          /\ call'[p].ret.id = call[p].prev.id
          /\ call'[p].ret.context = call[p].prev.context
          /\ contexts' = contexts
          /\ DOMAIN sessions' = DOMAIN sessions
          /\ sessions'[call[p].prev.id].lastActivity = clock
          /\ sessions'[call[p].prev.id].context = call[p].prev.context
          /\ \A id \in DOMAIN sessions \ {call[p].prev.id} :
               sessions'[id] = sessions[id]]_vars

C11_Witness ==
  \E p \in Clients :
    /\ call[p].pc = "returned"
    /\ call[p].op = "getSession"
    /\ call[p].prev.op = "getSession"
    /\ call[p].prev.kind = "session"
    /\ call[p].prev.config # call[p].config
    /\ AgreeOnFingerprint(call[p].prev.config, call[p].config)
    /\ call[p].ret.id = call[p].prev.id
    /\ call[p].ret.context = call[p].prev.context
    /\ clock = MaxClock
    /\ sessions[call[p].ret.id].lastActivity = MaxClock
    /\ Len(contexts) = 1

\* C12: when a client has rotated the session registered under the id of
\* configuration C and its next pool call is getSession(C), the session that
\* call returns has an id different from the rotated one.
C12_RotatedIdDiffers ==
  \A p \in Clients :
    ( /\ call[p].pc = "returned"
      /\ call[p].op = "getSession"
      /\ call[p].ret.kind = "session"
      /\ call[p].prev.op = "rotateSession"
      /\ call[p].prev.kind = "session"
      /\ call[p].prev.arg.salt = 0
      /\ AgreeOnFingerprint(call[p].prev.config, call[p].config) )
    => call[p].ret.id # call[p].prev.arg

\* C13: whenever closeAllSessions has returned, it has not thrown and
\* getStats().activeSessions is 0, also when the call before it was a
\* closeAllSessions and also when closing a context has failed.
C13_CloseAllEmptiesPool ==
  \A p \in Clients :
    (call[p].pc = "returned" /\ call[p].op = "closeAllSessions")
      => /\ call[p].ret.kind = "void"
         /\ ActiveSessions = 0

\* C14: no two clients are inside the bypass working on a session with the
\* same id at the same time.
C14_NoSharedSession ==
  \A p, q \in Clients :
    (p # q /\ Driving(p) /\ Driving(q)) => call[p].id # call[q].id

\* C15: no two live contexts were created for the same session id, and every
\* live context is the context of a registered session or is still being set
\* up by the call that created it.
C15_OneLiveContextPerId ==
  /\ \A i, j \in DOMAIN contexts :
       (i # j /\ contexts[i].live /\ contexts[j].live)
         => contexts[i].id # contexts[j].id
  /\ \A i \in DOMAIN contexts :
       contexts[i].live => (Registered(i) \/ BeingSetUp(i))

\* C16: when the final navigation of a bypass run has produced a response
\* with success = true and html H, executeJobsBgBypass hands its caller a
\* response with success = true and html H.
C16_BypassReturnsNavigation ==
  \A p \in Clients :
    ( /\ call[p].pc = "returned"
      /\ call[p].op = "executeJobsBgBypass"
      /\ call[p].navigation.kind = "response"
      /\ call[p].navigation.success )
    => /\ call[p].ret.kind = "response"
       /\ call[p].ret.success
       /\ call[p].ret.html = call[p].navigation.html

\* the document qualifies for the large-content exemption
Exempt(d) == hasJobContent(d) /\ d.length > LargeContentLength

\* C17: a classified document that contains a job card and a job keyword and
\* is longer than the size threshold of the exemption is never classified as
\* blocked, whatever block markers or vendor references it also contains.
C17_LargeJobListingNeverBlocked ==
  (blocked # "unclassified" /\ hasJobContent(document)
     /\ document.length > LargeContentLength)
    => blocked = "clear"

C17_Witness ==
  /\ blocked = "clear"
  /\ document.length = LargeContentLength + 1
  /\ {"mdc-card", "Vacancy", "forbidden", "datadome.co/captcha",
      "js.datadome.co/tags.js"} \subseteq document.text

\* C18: a classified document that does not qualify for the large-content
\* exemption and contains an entry of the blocking-indicator list is
\* classified as blocked.
C18_IndicatorMeansBlocked ==
  ( /\ blocked # "unclassified"
    /\ ~Exempt(document)
    /\ document.text \cap blockingIndicators # {} )
    => blocked = "blocked"

\* C19 as stated: the delays a call has slept are strictly increasing, under
\* every retry policy and every jitter draw.
C19_DelaysIncrease ==
  \A r \in Requests :
    \A n \in 1..(Len(delays[r]) - 1) : delays[r][n + 1] > delays[r][n]

\* the delay grows from one attempt to the next, by at least the jitter bound
GrowthCoversJitter(cfg) ==
  /\ cfg.baseDelayMs > 0
  /\ cfg.exponentialBase > 1
  /\ cfg.baseDelayMs * (cfg.exponentialBase - 1) >= cfg.jitterMs

\* C19 amended: under a retry policy with a positive base delay and a
\* multiplier above 1 whose base delay times (multiplier - 1) is at least its
\* jitter bound, as under the configured policy, the delays a call has slept
\* are strictly increasing for every jitter draw.
C19_DelaysIncreaseWhenGrowthCoversJitter ==
  /\ GrowthCoversJitter(ConfiguredPolicy(DefaultMaxAttempts))
  /\ GrowthCoversJitter(retryConfig)
       => \A r \in Requests :
            \A n \in 1..(Len(delays[r]) - 1) : delays[r][n + 1] > delays[r][n]

C19_Witness ==
  \E r \in Requests :
    /\ retryConfig.jitterMs = 2
    /\ GrowthCoversJitter(retryConfig)
    /\ Len(delays[r]) = 2
    /\ delays[r][1] = retryConfig.baseDelayMs + 1
    /\ delays[r][2] = retryConfig.baseDelayMs * retryConfig.exponentialBase

\* the url names a supported site
NamesSite(url) == UrlIncludes(url, "dev.bg") \/ UrlIncludes(url, "jobs.bg")

\* C20: a request without url, or with a url that names neither dev.bg nor
\* jobs.bg, is answered by a returned result with success = false and the
\* error 'URL parameter is required' or 'Unsupported URL or site'; while it
\* is served no scraper is looked up or invoked and nothing is saved.
C20_InvalidUrlRejected ==
  (endpoint.pc # "idle" /\ (UrlMissing(endpoint.url) \/ ~NamesSite(endpoint.url)))
    => /\ endpoint.pc = "replied"
       /\ endpoint.reply.kind = "return"
       /\ ~endpoint.reply.success
       /\ endpoint.reply.error =
            IF UrlMissing(endpoint.url) THEN "URL parameter is required"
            ELSE "Unsupported URL or site"
       /\ endpoint.lookups = 0
       /\ endpoint.scrapeJobsCalls = 0
       /\ endpoint.scrapeSiteCalls = 0

C20_Witness ==
  /\ endpoint.pc = "replied"
  /\ endpoint.url = "not-a-valid-url"
  /\ endpoint.saveToDb
  /\ endpoint.reply.error = "Unsupported URL or site"

C20_WitnessMissing ==
  /\ endpoint.pc = "replied"
  /\ endpoint.url = Undefined
  /\ endpoint.reply.error = "URL parameter is required"

\* the part of a slept delay that exceeds baseDelayMs * exponentialBase^(n-1)
JitterOf(cfg, n, delay) == delay - cfg.baseDelayMs * Pow(cfg.exponentialBase, n - 1)

\* `Math.random() * jitterMs`: at least 0 and below jitterMs (0 when jitterMs is 0)
JitterInRange(cfg, jitter) ==
  /\ 0 <= jitter
  /\ jitter < cfg.jitterMs \/ (cfg.jitterMs = 0 /\ jitter = 0)

\* C21: a call that is about to make attempt n+1 has slept exactly once after
\* each of its n failed attempts, the k-th sleep lasting baseDelayMs *
\* exponentialBase^(k-1) plus a jitter in [0, jitterMs); a call whose attempt
\* n has just failed with n < maxAttempts has slept n-1 times and sleeps next;
\* a call that has left the loop has slept one time fewer than it attempted,
\* so nothing is slept between the last attempt and the paid-fallback decision.
C21_OneSleepBetweenAttempts ==
  \A r \in Requests :
    /\ Len(delays[r]) = sleeps[r]
    /\ \A k \in 1..Len(delays[r]) :
         JitterInRange(retryConfig, JitterOf(retryConfig, k, delays[r][k]))
    /\ pc[r] = "attempt" => (sleeps[r] = freeCalls[r] /\ attempt[r] = freeCalls[r] + 1)
    /\ pc[r] = "sleep" => /\ attempt[r] < retryConfig.maxAttempts
                          /\ freeCalls[r] = attempt[r]
                          /\ sleeps[r] = attempt[r] - 1
    /\ pc[r] = "fallback" => /\ freeCalls[r] <= retryConfig.maxAttempts
                             /\ sleeps[r] = freeCalls[r] - 1

C21_Witness ==
  \E r \in Requests :
    /\ pc[r] = "fallback"
    /\ retryConfig.maxAttempts = MaxAttemptsBound
    /\ retryConfig.jitterMs = MaxJitter
    /\ retryConfig.exponentialBase = MaxExponentialBase
    /\ freeCalls[r] = MaxAttemptsBound
    /\ lastError[r] # BlockingDetected
    /\ sleeps[r] = MaxAttemptsBound - 1
    /\ JitterOf(retryConfig, 2, delays[r][2]) = MaxJitter - 1

\* C22: when a client's bypass run ended with a failed navigation and the
\* same client's next call is another bypass run (the next free attempt of
\* the request), that run drives a browsing context other than the one the
\* failed run used.
C22_FailedAttemptRotatesSession ==
  \A p \in Clients :
    ( /\ Driving(p)
      /\ call[p].prev.op = "executeJobsBgBypass"
      /\ call[p].prev.error = "NavigationFailed" )
    => call[p].context # call[p].prev.context

\* one tick of the pool clock stands for the passing of an idle timeout: a
\* registered session is past it when its last activity is older than the clock
Stale(session) == session.lastActivity < clock

\* C23: a getSession call that returns at once a session it found registered
\* found one that was not past the idle timeout.
C23_StaleSessionNotReturned ==
  [][\A p \in Clients :
       ( /\ call[p].pc = "idle"
         /\ call'[p].op = "getSession"
         /\ call'[p].pc = "returned"
         /\ call'[p].ret.kind = "session" )
       => ~Stale(sessions[call'[p].ret.id])]_vars

\* registered sessions that were created for configuration c
RegisteredFor(c) == {id \in DOMAIN sessions : sessions[id].config = c}

\* C24: the pool never holds more than one registered session created for the
\* same configuration.
C24_OneRegisteredSessionPerConfig ==
  \A c \in SessionConfigs : Cardinality(RegisteredFor(c)) <= 1

\* contexts on which client p has a `context.close()` call in flight
ClosesInFlight(p) ==
  IF call[p].pc = "closing" THEN {x.context : x \in call[p].pending} ELSE {}

\* C25: no browsing context has two close() calls made on it, whatever the
\* interleaving of closeSession, rotateSession and closeAllSessions, and a
\* closeSession or closeAllSessions call never ends in a throw.
C25_ContextClosedOnce ==
  /\ \A p, q \in Clients :
       p # q => ClosesInFlight(p) \cap ClosesInFlight(q) = {}
  /\ \A p \in Clients :
       ( call[p].pc = "returned" /\ call[p].op \in {"closeSession", "closeAllSessions"} )
       => call[p].ret.kind = "void"

\* C26: a rotateSession call made with an id that is not registered does not
\* end in a throw.
C26_RotateGoneSessionSoft ==
  \A p \in Clients :
    ( /\ call[p].pc = "returned"
      /\ call[p].op = "rotateSession" )
    => ~( call[p].ret.kind = "throw" /\ call[p].ret.error = "Session not found" )

\* C27: at most one browser has been launched, and every browsing context
\* created so far belongs to that one browser.
C27_SingleBrowserInstance ==
  /\ browser <= 1
  /\ \A i \in DOMAIN contexts : contexts[i].browser = 1

\* the context client p is driving has been closed
ClosedUnder(p) == call[p].context # 0 /\ ~contexts[call[p].context].live

C29_SmallJobListingNotBlocked ==
  ( /\ blocked # "unclassified"
    /\ document.length < MinimalContentLength
    /\ hasJobContent(document)
    /\ ~hasBlockingIndicator(document) )
  => blocked = "clear"

\* the wall-clock month differs from the month of the last reset
MonthChanged == now.month # lastReset.month

\* a step in which the ledger is used: a budget check, a spend, or a
\* resetMonthlyUsage call
LedgerUsed ==
  \/ admin.pc = "idle" /\ admin'.pc = "replied"
  \/ \E r \in Requests :
       pc[r] \in {"paidCheck", "trackSuccess", "trackFailure"} /\ pc'[r] # pc[r]

\* C30: the first use of the ledger (budget check, spend or reset call) after
\* the wall-clock month has changed since the last reset clears the counters
\* of the earlier months and records the reset, on whatever day it happens.
C30_ResetOnFirstUseInNewMonth ==
  [][(MonthChanged /\ LedgerUsed)
       => /\ \A key \in DOMAIN monthlyUsage' :
               key[2] = now.year /\ key[3] = now.month
          /\ lastReset'.month = now.month]_vars


\* credits of the usage entry handed to trackUsage in this step, 0 when the
\* step records none
RecordedInStep ==
  IF \E r \in Requests : Len(usageLog'[r]) = Len(usageLog[r]) + 1
  THEN LET r == CHOOSE q \in Requests : Len(usageLog'[q]) = Len(usageLog[q]) + 1
       IN  usageLog'[r][Len(usageLog'[r])].credits
  ELSE 0

\* C31: within one calendar month the used credits of the service never
\* decrease: a step that leaves the wall-clock month unchanged (a spend, a
\* budget check, a usage-percentage read or a resetMonthlyUsage call) moves
\* `used` by exactly the credits recorded in that step.
C31_UsedGrowsByRecordedCredits ==
  [][(now' = now) => Used' = Used + RecordedInStep]_vars


\* C32: concurrent spend recordings never lose an update: whatever other
\* trackUsage calls are in flight, the step in which a call records its usage
\* adds exactly its credits to the used value of its service and month and
\* leaves every other counter alone, and no later step of the call changes a
\* counter, so after k recordings used is the previous value plus the sum of
\* the k amounts.
C32_NoLostUpdate ==
  [][\A r \in Requests :
       spend'[r] # spend[r] =>
         IF spend[r].pc = "idle"
         THEN LET key == UsageKey(spend'[r].service, now)
              IN  /\ UsageOf(monthlyUsage', key)
                       = UsageOf(monthlyUsage, key) + spend'[r].credits
                  /\ \A k \in DOMAIN monthlyUsage' \ {key} :
                       k \in DOMAIN monthlyUsage /\ monthlyUsage'[k] = monthlyUsage[k]
         ELSE monthlyUsage' = monthlyUsage]_vars

\* two recordings for the same service are in flight together and the used
\* value holds both amounts
C32_Witness ==
  /\ \A r \in {1, 2} : spend[r].pc # "idle" /\ spend[r].service = "scraperapi"
  /\ spend[1].credits = JobsBgCredits
  /\ spend[2].credits = DefaultCredits
  /\ Used >= JobsBgCredits + DefaultCredits


\* C33: a paid-service call that passed the budget check hands exactly one
\* usage entry to trackUsage by the time it settles: the provider's credits
\* with successful = TRUE when the paid call succeeded, 0 credits with
\* successful = FALSE when it failed; a call stopped by the budget check, and
\* a call still before its bookkeeping, has handed over none.
C33_OneUsageEntryPerPaidCall ==
  \A r \in Requests :
    /\ Len(usageLog[r]) <= 1
    /\ (pc[r] = "done" /\ paidCalls[r] = 1) =>
         /\ Len(usageLog[r]) = 1
         /\ IF PaidCallFailed(paidResponse[r])
            THEN usageLog[r][1].credits = 0 /\ ~usageLog[r][1].successful
            ELSE /\ usageLog[r][1].credits = paidResponse[r].credits
                 /\ usageLog[r][1].credits = calculateCredits(opts[r].siteName, "scraperapi")
                 /\ usageLog[r][1].successful
    /\ (pc[r] = "done" /\ result[r].via = "budget") =>
         (paidCalls[r] = 0 /\ usageLog[r] = << >>)
    /\ pc[r] \in {"paidCheck", "paidCall", "trackSuccess", "trackFailure"} =>
         usageLog[r] = << >>

\* a jobs.bg call whose paid fallback succeeded has settled with its entry
C33_Witness ==
  \E r \in Requests :
    /\ pc[r] = "done"
    /\ paidCalls[r] = 1
    /\ ~PaidCallFailed(paidResponse[r])
    /\ usageLog[r] = << SuccessUsage(r) >>
    /\ usageLog[r][1].credits = JobsBgCredits

\* a call whose paid fallback failed has settled with its zero-credit entry
C33_WitnessFailed ==
  \E r \in Requests :
    /\ pc[r] = "done"
    /\ paidCalls[r] = 1
    /\ PaidCallFailed(paidResponse[r])
    /\ usageLog[r] = << FailureUsage(r) >>


\* C34: a paid-provider response whose body is an error payload is never
\* reported as a successful fetch: scrapeWithScraperAPI yields success = FALSE
\* and credits = 0 for it, and the call that received it settles without a
\* successful result and without a debit of the ledger.
C34_ErrorPayloadNeverSucceeds ==
  \A r \in Requests :
    paidResponse[r].body \in ErrorPayloads =>
      /\ ~paidResponse[r].success
      /\ paidResponse[r].credits = 0
      /\ pc[r] # "trackSuccess"
      /\ pc[r] = "done" =>
           /\ ~result[r].success
           /\ \A i \in 1..Len(usageLog[r]) : usageLog[r][i].credits = 0


\* C35: scrapeWithFallback falls back to ScrapingDog when the ScraperAPI
\* request failed and ScrapingDog is enabled and configured, and then returns
\* ScrapingDog's result; it throws 'All paid scraping services exhausted or
\* unavailable' only when no service produced a result.
C35_FallsBackToScrapingDog ==
  paid.pc = "settled" =>
    /\ ( /\ paid.calls # << >>
         /\ paid.calls[1] = "scraperapi"
         /\ ~paid.first.success
         /\ isAvailable(paid.scrapingdog) )
       => /\ paid.calls = << "scraperapi", "scrapingdog" >>
          /\ paid.result.error # paid.first.error
    /\ paid.result = AllExhausted =>
         (paid.calls = << >> \/ paid.first.kind = "throw")


\* the phase that follows each phase of the strategy
NextPhase ==
  [homepage |-> "homepageLoading", homepageLoading |-> "simulate",
   simulate |-> "wait", wait |-> "target", target |-> "targetLoading",
   targetLoading |-> "returned"]

\* C36: the bypass strategy runs its phases strictly in order, one settled
\* await after the other: header step and warm-up visit, behaviour
\* simulation, trust-building wait, header shaping and target navigation.
\* The only other way a phase ends is a step that rethrew, which ends the run.
\* A failed warm-up visit and a skipped step (safePageOperation yielding null)
\* are followed by the next phase; the run that reaches the target navigation
\* resolves with the navigation's response, success = FALSE when it failed.
C36_PhasesInOrder ==
  [][\A p \in Clients :
       (Driving(p) /\ call'[p].pc # call[p].pc) =>
         /\ \/ call'[p].pc = NextPhase[call[p].pc]
            \/ call'[p].pc = "returned" /\ call'[p].step = "throw"
         /\ call[p].pc = "homepageLoading" => call'[p].pc = "simulate"
         /\ (call[p].pc \in {"homepage", "simulate", "wait", "target"}
               /\ call'[p].step = "null")
              => call'[p].pc = NextPhase[call[p].pc]
         /\ call[p].pc = "targetLoading" =>
              /\ call'[p].navigation \in FetchOutcomes
              /\ (stats'.successfulRequests = stats.successfulRequests)
                   = ~call'[p].navigation.success
              /\ call'[p].ret.kind # "throw"]_vars

\* a run whose warm-up visit and target navigation both failed and whose last
\* step was skipped went through every phase and ended without a throw
C36_Witness ==
  \E p \in Clients :
    /\ call[p].op = "executeJobsBgBypass"
    /\ call[p].pc = "returned"
    /\ call[p].step = "null"
    /\ stats.totalRequests = 2
    /\ stats.successfulRequests = 0
    /\ call[p].navigation.kind = "response"
    /\ ~call[p].navigation.success


\* C37: every executeWithFallback call terminates when each of its awaited
\* operations terminates: a call that has started settles (returns or throws),
\* and up to then it makes at most maxAttempts free attempts, at most
\* maxAttempts - 1 backoff sleeps and at most one paid call.
C37_CallTerminates ==
  /\ [](\A r \in Requests :
          /\ freeCalls[r] <= retryConfig.maxAttempts
          /\ sleeps[r] <= retryConfig.maxAttempts - 1
          /\ paidCalls[r] <= 1)
  /\ \A r \in Sequential :
       (pc[r] # "idle") ~> (pc[r] = "done" /\ result[r].kind \in {"return", "throw"})

\* a call that used every attempt, every sleep and the paid call has settled
C37_Witness ==
  \E r \in Requests :
    /\ pc[r] = "done"
    /\ retryConfig.maxAttempts = MaxAttemptsBound
    /\ freeCalls[r] = retryConfig.maxAttempts
    /\ sleeps[r] = retryConfig.maxAttempts - 1
    /\ paidCalls[r] = 1
    /\ result[r].kind \in {"return", "throw"}


\* C38: performInfiniteScroll terminates for every sequence of observed page
\* heights: a call that has started returns; it runs at most 15 iterations;
\* an iteration that leaves the height as it was before it is the last one;
\* and a call that returned after fewer than 15 iterations returned because
\* the height had stopped changing.
C38_ScrollTerminates ==
  /\ [](/\ scroll.attempts <= MaxScrollAttempts
        /\ (scroll.pc = "returned" /\ scroll.attempts < MaxScrollAttempts)
             => scroll.previousHeight = scroll.currentHeight)
  /\ [][(scroll.pc = "loop" /\ scroll.attempts >= 1
           /\ scroll.previousHeight = scroll.currentHeight)
          => (scroll'.attempts = scroll.attempts /\ scroll'.pc = "returned")]_vars
  /\ (scroll.pc = "loop") ~> (scroll.pc = "returned")

\* a call whose page kept growing has returned at the cap of 15 iterations
C38_Witness ==
  /\ scroll.pc = "returned"
  /\ scroll.attempts = MaxScrollAttempts
  /\ scroll.previousHeight # scroll.currentHeight

\* a call has returned after the first iteration that left the height as it was
C38_WitnessStable ==
  /\ scroll.pc = "returned"
  /\ scroll.attempts \in 1..(MaxScrollAttempts - 1)
  /\ scroll.previousHeight = scroll.currentHeight


\* a fetchPage call of client p settles in this step
FetchSettles(p) ==
  /\ call[p].pc \in {"homepageLoading", "targetLoading"}
  /\ call'[p].pc # call[p].pc

\* C39: in every reachable state of the pool 0 <= successfulRequests <=
\* totalRequests and getStats().activeSessions is the number of registered
\* sessions; every fetchPage call that settles, successful or failed, adds
\* exactly one to totalRequests (and one to successfulRequests exactly when it
\* succeeded), and no other step changes the counters.
C39_StatsConsistent ==
  /\ [](/\ 0 <= stats.successfulRequests
        /\ stats.successfulRequests <= stats.totalRequests
        /\ getStats.totalRequests = stats.totalRequests
        /\ getStats.activeSessions = Cardinality({id \in SessionIds : id \in DOMAIN sessions}))
  /\ [][/\ \A p \in Clients :
             FetchSettles(p) =>
               /\ stats'.totalRequests = stats.totalRequests + 1
               /\ stats'.successfulRequests - stats.successfulRequests \in {0, 1}
               /\ call[p].pc = "targetLoading" =>
                    (stats'.successfulRequests = stats.successfulRequests + 1)
                      = call'[p].navigation.success
        /\ (\A p \in Clients : ~FetchSettles(p)) => stats' = stats]_vars

\* after a failed and a successful fetch both are counted, one as successful,
\* while a session is registered
C39_Witness ==
  /\ stats.totalRequests = 2
  /\ stats.successfulRequests = 1
  /\ getStats.activeSessions = 1
  /\ \E p \in Clients : call[p].pc = "returned" /\ ~call[p].navigation.success

====
